---- MODULE Spec2Model ----
(***************************************************************************)
(* MaxwilBakeryHub: the storage contract (MemStorage / DatabaseStorage),   *)
(* the client cart (CartProvider / FastFoodPage) and the per-IP rate       *)
(* limiter of the HTTP server, as state machines.                          *)
(***************************************************************************)
EXTENDS Integers, Sequences, FiniteSets, TLC

VARIABLES
    impl,              \* which IStorage implementation this run exercises
    users,             \* id -> User        (MemStorage.users / table users)
    products,          \* id -> Product     (MemStorage.products / table products)
    orders,            \* id -> Order       (MemStorage.orders / table orders)
    currentUserId,     \* next user id      (field / serial sequence)
    currentProductId,  \* next product id   (field / serial sequence)
    currentOrderId,    \* next order id     (field / serial sequence)
    clock,             \* the value new Date() / defaultNow() yields next
    ret,               \* the last storage call: its name, arguments and result
    cartOwner,         \* which component holds the cart state of this run
    cart,              \* CartItem[]
    cartOp,            \* the last cart call and the cart it was applied to
    rateLimitMap,      \* ip -> [count, resetTime]
    now,               \* Date.now()
    hits,              \* per ip: requests that reached the limiter in its window
    res,               \* the last HTTP request and what the pipeline did with it
    formData,          \* CheckoutModal: the checkout form
    isSuccess,         \* CheckoutModal: the success view is selected
    isCheckoutOpen,    \* HomePage: the checkout dialog is open
    orderMutation,     \* CheckoutModal: POST /api/orders, its status and body
    toast,             \* the title of the last toast shown
    loginForm,         \* AuthPage: the login form
    loginMutation,     \* AuthPage: POST /api/login, its status and body
    location,          \* wouter: the current path
    capturedJsonResponse,  \* logging middleware: the body res.json was given
    logLine,           \* logging middleware: the value appended to the log line
    calls,             \* concurrent updateOrderStatus calls: where each stands
    written,           \* the callers, in the order their writes were applied
    completed,         \* the callers, in the order their calls returned
    selectedOrder,     \* SimpleDeliveryMap: the order whose details are open
    offlineOrdersKey,  \* device storage: the text under 'offline_orders'
    storing,           \* storeOfflineOrder calls: where each stands
    syncing,           \* syncOfflineOrders calls: where each stands
    posted,            \* how often each offline order was sent to POST /api/orders
    accepted           \* the offline orders the server answered ok for

storageVars == <<impl, users, products, orders, currentUserId, currentProductId,
                 currentOrderId, clock, ret>>
cartVars == <<cartOwner, cart, cartOp>>
rateVars == <<rateLimitMap, now, hits, res>>
checkoutVars == <<formData, isSuccess, isCheckoutOpen, orderMutation>>
authVars == <<loginForm, loginMutation, location>>
pageVars == <<checkoutVars, authVars, toast>>
logVars == <<capturedJsonResponse, logLine>>
callVars == <<calls, written, completed>>
viewVars == <<selectedOrder>>
offlineVars == <<offlineOrdersKey, storing, syncing, posted, accepted>>
serviceVars == <<logVars, callVars, viewVars, offlineVars>>
vars == <<storageVars, cartVars, rateVars, pageVars, serviceVars>>

-----------------------------------------------------------------------------
(* Bounds of the model *)

MaxProductId == 5
MaxOrderId == 3
MaxUserId == 2
MaxBootProductId == 9
MaxJsonDepth == 1
NumCartProducts == 2
MaxAddQuantity == 3
MaxQuantity == 5
MaxHitsOver == 2
MaxLightHits == 1
MaxSkew == 1
MaxOfflineOrders == 2
MaxSyncCalls == 2

-----------------------------------------------------------------------------
(* JavaScript values *)

Null == "null"
NoRecord == [undefined |-> TRUE]

Has(obj, k) == k \in DOMAIN obj

\* { ...a, ...b }
Spread(a, b) ==
    [k \in (DOMAIN a) \cup (DOMAIN b) |-> IF k \in DOMAIN b THEN b[k] ELSE a[k]]

\* obj.k || null, for a string-valued property
OrNull(obj, k) ==
    IF Has(obj, k) /\ obj[k] # Null /\ obj[k] # "" THEN obj[k] ELSE Null

\* obj.k ?? true, for a boolean-valued property
CoalesceTrue(obj, k) ==
    IF Has(obj, k) THEN obj[k] ELSE TRUE

\* the truthiness of obj.k, for a boolean-valued property
Truthy(obj, k) == Has(obj, k) /\ obj[k] = TRUE

\* a map holding key k only
MapSetAlone(m, k, v) == [i \in {k} |-> v]

\* the map m with key k set to v
MapSet(m, k, v) == [i \in (DOMAIN m) \cup {k} |-> IF i = k THEN v ELSE m[i]]

\* the map m without key k
MapDelete(m, k) == [i \in (DOMAIN m) \ {k} |-> m[i]]

-----------------------------------------------------------------------------
(* The storage contract: shared/schema.ts, MemStorage, DatabaseStorage *)

\* initializeProducts: the four starter products
initialProducts ==
    << [name |-> "Pandesal", description |-> "Traditional Filipino bread roll",
        price |-> <<"5", ".", "0", "0">>, category |-> "bread",
        imageUrl |-> "photo-1549931319", available |-> TRUE],
       [name |-> "Butter Croissant", description |-> "Flaky, buttery French pastry",
        price |-> <<"4", "5", ".", "0", "0">>, category |-> "pastries",
        imageUrl |-> "photo-1555507036", available |-> TRUE],
       [name |-> "Whole Wheat Bread", description |-> "Healthy whole grain bread",
        price |-> <<"8", "5", ".", "0", "0">>, category |-> "bread",
        imageUrl |-> "photo-1506976785", available |-> TRUE],
       [name |-> "Vanilla Cupcake", description |-> "Moist vanilla cake",
        price |-> <<"3", "5", ".", "0", "0">>, category |-> "pastries",
        imageUrl |-> "photo-1587668178", available |-> TRUE] >>

\* Values of type InsertProduct (insertProductSchema: imageUrl and available
\* are optional, imageUrl is nullable)
ProductBase ==
    [name |-> "Ensaymada", description |-> "Soft sweet bun",
     price |-> <<"2", "5", ".", "5", "0">>, category |-> "bread"]

InsertProducts ==
    { Spread(ProductBase, [imageUrl |-> "ensaymada.png", available |-> TRUE]),
      Spread(ProductBase, [imageUrl |-> "", available |-> FALSE]),
      ProductBase }

\* Values handed to createOrder: InsertOrder omits status, a request body
\* may still carry one
OrderBase ==
    [customerPhone |-> "09171234567", deliveryAddress |-> "Purok 1",
     totalAmount |-> "90.00", items |-> "[]"]

InsertOrders ==
    LET typed == { Spread(OrderBase, [customerName |-> n, paymentMethod |-> m]) :
                       n \in {"Ana", "Ben"}, m \in {"cod", "gcash", "bank"} }
    IN  typed \cup { Spread(o, [status |-> s]) :
                       o \in typed, s \in {"delivered", "cancelled"} }

\* The row a table holds after INSERT ... VALUES(values): given columns are
\* kept, the others take the column default of pgTable(...)
ProductRow(values, id, t) ==
    [id |-> id, name |-> values.name, description |-> values.description,
     price |-> values.price, category |-> values.category,
     imageUrl |-> IF Has(values, "imageUrl") THEN values.imageUrl ELSE Null,
     available |-> IF Has(values, "available") THEN values.available ELSE TRUE,
     createdAt |-> t]

OrderRow(values, id, t) ==
    [id |-> id, customerName |-> values.customerName,
     customerPhone |-> values.customerPhone,
     deliveryAddress |-> values.deliveryAddress,
     deliveryLatitude |-> IF Has(values, "deliveryLatitude")
                          THEN values.deliveryLatitude ELSE Null,
     deliveryLongitude |-> IF Has(values, "deliveryLongitude")
                           THEN values.deliveryLongitude ELSE Null,
     paymentMethod |-> values.paymentMethod, totalAmount |-> values.totalAmount,
     status |-> IF Has(values, "status") THEN values.status ELSE "pending",
     items |-> values.items, createdAt |-> t]

UserRow(values, id) ==
    [id |-> id, username |-> values.username, password |-> values.password,
     role |-> IF Has(values, "role") THEN values.role ELSE "customer",
     securityCode |-> IF Has(values, "securityCode")
                      THEN values.securityCode ELSE Null]

\* --- the records each implementation builds ---

MemNewUser(insertUser, id) == Spread(insertUser, [id |-> id])

DbNewUser(insertUser, id) ==
    UserRow(Spread(insertUser,
                   [role |-> IF Has(insertUser, "role") /\ insertUser.role # ""
                             THEN insertUser.role ELSE "customer",
                    securityCode |-> OrNull(insertUser, "securityCode")]), id)

MemNewProduct(insertProduct, id, t) ==
    Spread(insertProduct, [id |-> id, createdAt |-> t])

DbNewProduct(insertProduct, id, t) ==
    ProductRow(Spread(insertProduct,
                      [imageUrl |-> OrNull(insertProduct, "imageUrl"),
                       available |-> CoalesceTrue(insertProduct, "available")]),
               id, t)

\* only the name is rewritten
MemUpdatedProductNameOnly(existingProduct, insertProduct, id) ==
    Spread(existingProduct, [name |-> insertProduct.name])

MemUpdatedProduct(existingProduct, insertProduct, id) ==
    Spread(insertProduct, [id |-> id, createdAt |-> existingProduct.createdAt])

DbUpdatedProduct(existingProduct, insertProduct, id) ==
    Spread(existingProduct,
           Spread(insertProduct,
                  [imageUrl |-> OrNull(insertProduct, "imageUrl"),
                   available |-> CoalesceTrue(insertProduct, "available")]))

\* { id, status: "pending", createdAt, ...insertOrder }
MemNewOrderInputLast(insertOrder, id, t) ==
    Spread([id |-> id, status |-> "pending", createdAt |-> t], insertOrder)

MemNewOrder(insertOrder, id, t) ==
    Spread(insertOrder, [id |-> id, status |-> "pending", createdAt |-> t])

DbNewOrder(insertOrder, id, t) ==
    OrderRow(Spread(insertOrder, [status |-> "pending"]), id, t)

\* --- reads ---

\* Array.from(this.products.values()), unfiltered
MemGetAllProductsUnfiltered == { products[i] : i \in DOMAIN products }

MemGetAllProducts ==
    { products[i] : i \in { j \in DOMAIN products : Truthy(products[j], "available") } }

DbGetAllProducts ==
    { products[i] : i \in { j \in DOMAIN products : products[j].available = TRUE } }

getAllProducts == IF impl = "mem" THEN MemGetAllProducts ELSE DbGetAllProducts

getProduct(id) == IF id \in DOMAIN products THEN products[id] ELSE NoRecord

getOrder(id) == IF id \in DOMAIN orders THEN orders[id] ELSE NoRecord

\* this.products.delete(id); return true
MemDeleteResultAlways(id) == TRUE

\* Map.delete(id) / rowCount > 0 of DELETE ... WHERE id = id
MemDeleteResult(id) == id \in DOMAIN products

DbDeleteResult(id) == Cardinality({ i \in DOMAIN products : i = id }) > 0

\* --- construction: MemStorage.constructor / DatabaseStorage.initializeDatabase
\*     on an empty database ---

MemAdmin ==
    [username |-> "admin", password |-> "$2a$10$encrypted.password.hash",
     role |-> "admin", securityCode |-> "BAKERY123"]

DbAdmin ==
    [username |-> "admin", password |-> "maxwil2024",
     role |-> "admin", securityCode |-> "BAKERY123"]

Result(op, id, input, ok, value) ==
    [op |-> op, id |-> id, input |-> input, ok |-> ok, value |-> value]

StorageInitially(i) ==
    /\ impl = i
    /\ users = IF i = "mem" THEN MapSet(<<>>, 1, MemNewUser(MemAdmin, 1))
                            ELSE MapSet(<<>>, 1, DbNewUser(DbAdmin, 1))
    /\ products = [k \in DOMAIN initialProducts |->
                     IF i = "mem" THEN MemNewProduct(initialProducts[k], k, 0)
                                  ELSE DbNewProduct(initialProducts[k], k, 0)]
    /\ orders = <<>>
    /\ currentUserId = 2
    /\ currentProductId = Len(initialProducts) + 1
    /\ currentOrderId = 1
    /\ clock = 1
    /\ ret = Result("constructor", 0, NoRecord, TRUE, NoRecord)

\* --- ids: const id = this.currentXId++ ---

\* the counter is left where it was
NextIdSame(current) == current

\* the counter after this.currentXId++
NextId(current) == current + 1

\* --- product operations ---

MemCreateProduct(insertProduct) ==
    /\ impl = "mem"
    /\ currentProductId <= MaxProductId
    /\ LET id == currentProductId
           product == MemNewProduct(insertProduct, id, clock)
       IN  /\ products' = MapSet(products, id, product)
           /\ ret' = Result("createProduct", id, insertProduct, TRUE, product)
    /\ currentProductId' = NextId(currentProductId)
    /\ clock' = clock + 1
    /\ UNCHANGED <<impl, users, orders, currentUserId, currentOrderId>>
    /\ UNCHANGED <<cartVars, rateVars, pageVars, serviceVars>>

DbCreateProduct(insertProduct) ==
    /\ impl = "db"
    /\ currentProductId <= MaxProductId
    /\ LET id == currentProductId
           product == DbNewProduct(insertProduct, id, clock)
       IN  /\ products' = MapSet(products, id, product)
           /\ ret' = Result("createProduct", id, insertProduct, TRUE, product)
    /\ currentProductId' = currentProductId + 1
    /\ clock' = clock + 1
    /\ UNCHANGED <<impl, users, orders, currentUserId, currentOrderId>>
    /\ UNCHANGED <<cartVars, rateVars, pageVars, serviceVars>>

MemUpdateProduct(id, insertProduct) ==
    /\ impl = "mem"
    /\ IF id \notin DOMAIN products
       THEN /\ ret' = Result("updateProduct", id, insertProduct, FALSE, NoRecord)
            /\ UNCHANGED products
       ELSE LET updatedProduct == MemUpdatedProduct(products[id], insertProduct, id)
            IN  /\ products' = MapSet(products, id, updatedProduct)
                /\ ret' = Result("updateProduct", id, insertProduct, TRUE, updatedProduct)
    /\ UNCHANGED <<impl, users, orders, currentUserId, currentProductId,
                   currentOrderId, clock>>
    /\ UNCHANGED <<cartVars, rateVars, pageVars, serviceVars>>

DbUpdateProduct(id, insertProduct) ==
    /\ impl = "db"
    /\ IF id \notin DOMAIN products
       THEN /\ ret' = Result("updateProduct", id, insertProduct, FALSE, NoRecord)
            /\ UNCHANGED products
       ELSE LET product == DbUpdatedProduct(products[id], insertProduct, id)
            IN  /\ products' = MapSet(products, id, product)
                /\ ret' = Result("updateProduct", id, insertProduct, TRUE, product)
    /\ UNCHANGED <<impl, users, orders, currentUserId, currentProductId,
                   currentOrderId, clock>>
    /\ UNCHANGED <<cartVars, rateVars, pageVars, serviceVars>>

MemDeleteProduct(id) ==
    /\ impl = "mem"
    /\ ret' = Result("deleteProduct", id, NoRecord, MemDeleteResult(id), NoRecord)
    /\ products' = MapDelete(products, id)
    /\ UNCHANGED <<impl, users, orders, currentUserId, currentProductId,
                   currentOrderId, clock>>
    /\ UNCHANGED <<cartVars, rateVars, pageVars, serviceVars>>

DbDeleteProduct(id) ==
    /\ impl = "db"
    /\ ret' = Result("deleteProduct", id, NoRecord, DbDeleteResult(id), NoRecord)
    /\ products' = MapDelete(products, id)
    /\ UNCHANGED <<impl, users, orders, currentUserId, currentProductId,
                   currentOrderId, clock>>
    /\ UNCHANGED <<cartVars, rateVars, pageVars, serviceVars>>

\* --- order operations ---

MemCreateOrder(insertOrder) ==
    /\ impl = "mem"
    /\ currentOrderId <= MaxOrderId
    /\ LET id == currentOrderId
           order == MemNewOrder(insertOrder, id, clock)
       IN  /\ orders' = MapSet(orders, id, order)
           /\ ret' = Result("createOrder", id, insertOrder, TRUE, order)
    /\ currentOrderId' = NextId(currentOrderId)
    /\ clock' = clock + 1
    /\ UNCHANGED <<impl, users, products, currentUserId, currentProductId>>
    /\ UNCHANGED <<cartVars, rateVars, pageVars, serviceVars>>

DbCreateOrder(insertOrder) ==
    /\ impl = "db"
    /\ currentOrderId <= MaxOrderId
    /\ LET id == currentOrderId
           order == DbNewOrder(insertOrder, id, clock)
       IN  /\ orders' = MapSet(orders, id, order)
           /\ ret' = Result("createOrder", id, insertOrder, TRUE, order)
    /\ currentOrderId' = currentOrderId + 1
    /\ clock' = clock + 1
    /\ UNCHANGED <<impl, users, products, currentUserId, currentProductId>>
    /\ UNCHANGED <<cartVars, rateVars, pageVars, serviceVars>>

\* Values handed to updateOrderStatus: any string, the ones the admin page
\* sends and one it does not know
Statuses == {"pending", "delivered", "on-the-moon"}

\* an order keeps its status once it is delivered
MemUpdatedOrderKeepDelivered(order, status) ==
    IF order.status = "delivered" THEN order ELSE Spread(order, [status |-> status])

\* { ...order, status }
MemUpdatedOrder(order, status) == Spread(order, [status |-> status])

\* the status is written on a pending order only
DbUpdatedOrderIfPending(order, status) ==
    IF order.status = "pending" THEN [order EXCEPT !.status = status] ELSE order

\* UPDATE orders SET status = status WHERE id = id RETURNING *
DbUpdatedOrder(order, status) == [order EXCEPT !.status = status]

MemUpdateOrderStatus(id, status) ==
    /\ impl = "mem"
    /\ IF id \notin DOMAIN orders
       THEN /\ ret' = Result("updateOrderStatus", id, status, FALSE, NoRecord)
            /\ UNCHANGED orders
       ELSE LET updatedOrder == MemUpdatedOrder(orders[id], status)
            IN  /\ orders' = MapSet(orders, id, updatedOrder)
                /\ ret' = Result("updateOrderStatus", id, status, TRUE, updatedOrder)
    /\ UNCHANGED <<impl, users, products, currentUserId, currentProductId,
                   currentOrderId, clock>>
    /\ UNCHANGED <<cartVars, rateVars, pageVars, serviceVars>>

DbUpdateOrderStatus(id, status) ==
    /\ impl = "db"
    /\ IF id \notin DOMAIN orders
       THEN /\ ret' = Result("updateOrderStatus", id, status, FALSE, NoRecord)
            /\ UNCHANGED orders
       ELSE LET order == DbUpdatedOrder(orders[id], status)
            IN  /\ orders' = MapSet(orders, id, order)
                /\ ret' = Result("updateOrderStatus", id, status, TRUE, order)
    /\ UNCHANGED <<impl, users, products, currentUserId, currentProductId,
                   currentOrderId, clock>>
    /\ UNCHANGED <<cartVars, rateVars, pageVars, serviceVars>>

\* --- user operations ---

\* Values of type InsertUser (insertUserSchema: role and securityCode are
\* optional)
InsertUsers ==
    { [username |-> "admin", password |-> "hash-1"],
      [username |-> "ana", password |-> "hash-1"] }

Usernames == {"admin", "ana", "ben"}

\* what a rejected promise carries
Raised(message) == [error |-> message]

\* an unknown id yields the administrator
getUserOrAdmin(id) == IF id \in DOMAIN users THEN users[id] ELSE users[1]

getUser(id) == IF id \in DOMAIN users THEN users[id] ELSE NoRecord

\* the users a lookup by username matches
UsersNamed(username) == { i \in DOMAIN users : users[i].username = username }

\* Array.from(this.users.values()).find(...) / the first selected row
getUserByUsername(username) ==
    IF UsersNamed(username) = {}
    THEN NoRecord
    ELSE users[CHOOSE i \in UsersNamed(username) :
                   \A j \in UsersNamed(username) : i <= j]

MemCreateUser(insertUser) ==
    /\ impl = "mem"
    /\ currentUserId <= MaxUserId
    /\ LET id == currentUserId
           user == MemNewUser(insertUser, id)
       IN  /\ users' = MapSet(users, id, user)
           /\ ret' = Result("createUser", id, insertUser, TRUE, user)
    /\ currentUserId' = NextId(currentUserId)
    /\ UNCHANGED <<impl, products, orders, currentProductId, currentOrderId, clock>>
    /\ UNCHANGED <<cartVars, rateVars, pageVars, serviceVars>>

\* INSERT INTO users: the serial column draws its id before the unique
\* index on username accepts or rejects the row
DbCreateUser(insertUser) ==
    /\ impl = "db"
    /\ currentUserId <= MaxUserId
    /\ LET id == currentUserId
           user == DbNewUser(insertUser, id)
       IN  IF UsersNamed(insertUser.username) # {}
           THEN /\ ret' = Result("createUser", id, insertUser, FALSE,
                                 Raised("users_username_unique"))
                /\ UNCHANGED users
           ELSE /\ users' = MapSet(users, id, user)
                /\ ret' = Result("createUser", id, insertUser, TRUE, user)
    /\ currentUserId' = currentUserId + 1
    /\ UNCHANGED <<impl, products, orders, currentProductId, currentOrderId, clock>>
    /\ UNCHANGED <<cartVars, rateVars, pageVars, serviceVars>>

\* UPDATE users SET password = hashedPassword WHERE id = id
DbUpdateUserPassword(id, hashedPassword) ==
    /\ impl = "db"
    /\ users' = [i \in DOMAIN users |->
                    IF i = id THEN [users[i] EXCEPT !.password = hashedPassword]
                              ELSE users[i]]
    /\ ret' = Result("updateUserPassword", id, hashedPassword, TRUE, NoRecord)
    /\ UNCHANGED <<impl, products, orders, currentUserId, currentProductId,
                   currentOrderId, clock>>
    /\ UNCHANGED <<cartVars, rateVars, pageVars, serviceVars>>

\* --- lookups: this.xs.get(id) / const [x] = await db.select()...; x || undefined ---

GetUser(id) ==
    /\ ret' = Result("getUser", id, NoRecord, getUser(id) # NoRecord, getUser(id))
    /\ UNCHANGED <<impl, users, products, orders, currentUserId, currentProductId,
                   currentOrderId, clock>>
    /\ UNCHANGED <<cartVars, rateVars, pageVars, serviceVars>>

GetUserByUsername(username) ==
    /\ ret' = Result("getUserByUsername", 0, username,
                     getUserByUsername(username) # NoRecord,
                     getUserByUsername(username))
    /\ UNCHANGED <<impl, users, products, orders, currentUserId, currentProductId,
                   currentOrderId, clock>>
    /\ UNCHANGED <<cartVars, rateVars, pageVars, serviceVars>>

GetProduct(id) ==
    /\ ret' = Result("getProduct", id, NoRecord, getProduct(id) # NoRecord,
                     getProduct(id))
    /\ UNCHANGED <<impl, users, products, orders, currentUserId, currentProductId,
                   currentOrderId, clock>>
    /\ UNCHANGED <<cartVars, rateVars, pageVars, serviceVars>>

GetOrder(id) ==
    /\ ret' = Result("getOrder", id, NoRecord, getOrder(id) # NoRecord, getOrder(id))
    /\ UNCHANGED <<impl, users, products, orders, currentUserId, currentProductId,
                   currentOrderId, clock>>
    /\ UNCHANGED <<cartVars, rateVars, pageVars, serviceVars>>

\* --- bootstrap ---

\* the products a run of initializeProducts adds: one createProduct per
\* starter product, in order
SeededProducts(first, t) ==
    [i \in first..(first + Len(initialProducts) - 1) |->
        DbNewProduct(initialProducts[i - first + 1], i, t + (i - first))]

\* if (existingProducts.length === 0), existingProducts = getAllProducts()
NoProductsListed == Cardinality(DbGetAllProducts) = 0

\* DatabaseStorage.initializeDatabase, as each server start runs it
DbInitializeDatabase ==
    /\ impl = "db"
    /\ NoProductsListed =>
          currentProductId + Len(initialProducts) - 1 <= MaxBootProductId
    /\ LET existingAdmin == getUserByUsername("admin")
       IN  IF existingAdmin = NoRecord
           THEN /\ users' = MapSet(users, currentUserId, DbNewUser(DbAdmin, currentUserId))
                /\ currentUserId' = currentUserId + 1
           ELSE UNCHANGED <<users, currentUserId>>
    /\ IF NoProductsListed
       THEN /\ products' = Spread(products, SeededProducts(currentProductId, clock))
            /\ currentProductId' = currentProductId + Len(initialProducts)
            /\ clock' = clock + Len(initialProducts)
       ELSE UNCHANGED <<products, currentProductId, clock>>
    /\ ret' = Result("initializeDatabase", 0, NoRecord, TRUE, NoRecord)
    /\ UNCHANGED <<impl, orders, currentOrderId>>
    /\ UNCHANGED <<cartVars, rateVars, pageVars, serviceVars>>

\* new MemStorage(): fresh maps and counters, then the administrator and the
\* starter products
MemConstructor ==
    /\ impl = "mem"
    /\ users' = MapSet(<<>>, 1, MemNewUser(MemAdmin, 1))
    /\ products' = [k \in DOMAIN initialProducts |->
                       MemNewProduct(initialProducts[k], k, 0)]
    /\ orders' = <<>>
    /\ currentUserId' = 2
    /\ currentProductId' = Len(initialProducts) + 1
    /\ currentOrderId' = 1
    /\ clock' = 1
    /\ ret' = Result("constructor", 0, NoRecord, TRUE, NoRecord)
    /\ UNCHANGED impl
    /\ UNCHANGED <<cartVars, rateVars, pageVars, serviceVars>>

-----------------------------------------------------------------------------
(* The client cart: CartProvider (hooks/use-cart.tsx) and the page-local    *)
(* cart of FastFoodPage                                                     *)

Min(a, b) == IF a < b THEN a ELSE b
Max(a, b) == IF a > b THEN a ELSE b

\* The products the catalog offers to the cart: rows of table products
CartCatalog ==
    << ProductRow(initialProducts[1], 1, 0),
       DbNewProduct(ProductBase, 5, 1),
       ProductRow(initialProducts[2], 2, 0),
       ProductRow(initialProducts[4], 4, 0) >>

CartProducts ==
    { CartCatalog[i] : i \in 1..Min(NumCartProducts, Len(CartCatalog)) }

CartProductIds == { p.id : p \in CartProducts }

\* prevCart.find(item => item.id === id) is defined
FindItem(prevCart, id) == \E i \in 1..Len(prevCart) : prevCart[i].id = id

\* the CartItem addToCart appends; imageUrl: product.imageUrl ?? undefined
NewCartItem(product, quantity) ==
    LET item == [id |-> product.id, name |-> product.name, price |-> product.price,
                 quantity |-> quantity, category |-> product.category]
    IN  IF product.imageUrl # Null
        THEN Spread(item, [imageUrl |-> product.imageUrl])
        ELSE item

\* FastFoodPage: no category; imageUrl: product.imageUrl || undefined
FastFoodNewCartItem(product, quantity) ==
    LET item == [id |-> product.id, name |-> product.name, price |-> product.price,
                 quantity |-> quantity]
    IN  IF OrNull(product, "imageUrl") # Null
        THEN Spread(item, [imageUrl |-> product.imageUrl])
        ELSE item

MergeQuantity(prevCart, id, quantity) ==
    LET Merge(item) == IF item.id = id
                       THEN Spread(item, [quantity |-> item.quantity + quantity])
                       ELSE item
    IN  [i \in 1..Len(prevCart) |-> Merge(prevCart[i])]

\* [...prevCart, item] whether or not the product is in the cart
AddToCartFnAppendOnly(prevCart, product, quantity) ==
    Append(prevCart, NewCartItem(product, quantity))

\* the updater addToCart hands to setCart
AddToCartFn(prevCart, product, quantity) ==
    IF FindItem(prevCart, product.id)
    THEN MergeQuantity(prevCart, product.id, quantity)
    ELSE Append(prevCart, NewCartItem(product, quantity))

FastFoodAddToCartFn(prevCart, product, quantity) ==
    IF FindItem(prevCart, product.id)
    THEN MergeQuantity(prevCart, product.id, quantity)
    ELSE Append(prevCart, FastFoodNewCartItem(product, quantity))

Positive(item) == item.quantity > 0

\* the updater updateCartQuantity hands to setCart:
\* map(item => newQuantity > 0 ? {...item, quantity: newQuantity} : item)
\*   .filter(item => item.quantity > 0)
UpdateCartQuantityFn(prevCart, productId, change) ==
    LET Update(item) ==
            IF item.id = productId
            THEN LET newQuantity == item.quantity + change
                 IN  IF newQuantity > 0
                     THEN Spread(item, [quantity |-> newQuantity])
                     ELSE item
            ELSE item
    IN  SelectSeq([i \in 1..Len(prevCart) |-> Update(prevCart[i])], Positive)

\* FastFoodPage: newQuantity = Math.max(0, item.quantity + change)
FastFoodUpdateCartQuantityFn(prevCart, productId, change) ==
    LET Update(item) ==
            IF item.id = productId
            THEN LET newQuantity == Max(0, item.quantity + change)
                 IN  IF newQuantity > 0
                     THEN Spread(item, [quantity |-> newQuantity])
                     ELSE item
            ELSE item
    IN  SelectSeq([i \in 1..Len(prevCart) |-> Update(prevCart[i])], Positive)

\* every line goes when one is removed
RemoveFromCartFnAll(prevCart, productId) == <<>>

\* the updater removeFromCart hands to setCart
RemoveFromCartFn(prevCart, productId) ==
    LET Other(item) == item.id # productId
    IN  SelectSeq(prevCart, Other)

\* --- parseFloat on a decimal string, in cents (at most two fraction digits
\*     are read: prices are decimal(10, 2)) ---

Digits == <<"0", "1", "2", "3", "4", "5", "6", "7", "8", "9">>

IsDigit(c) == \E d \in 1..Len(Digits) : Digits[d] = c

DigitValue(c) == (CHOOSE d \in 1..Len(Digits) : Digits[d] = c) - 1

\* the index after the longest run of digits of str that starts at i
RECURSIVE DigitsEnd(_, _)
DigitsEnd(str, i) ==
    IF i <= Len(str) /\ IsDigit(str[i]) THEN DigitsEnd(str, i + 1) ELSE i

\* the number the digits str[i..j-1] denote
RECURSIVE DigitsNumber(_, _, _, _)
DigitsNumber(str, i, j, acc) ==
    IF i >= j THEN acc ELSE DigitsNumber(str, i + 1, j, acc * 10 + DigitValue(str[i]))

\* parseInt: the digits before the decimal point only
parseFloatWholeOnly(str) == DigitsNumber(str, 1, DigitsEnd(str, 1), 0) * 100

parseFloat(str) ==
    LET intEnd == DigitsEnd(str, 1)
        whole == DigitsNumber(str, 1, intEnd, 0)
        hasPoint == intEnd <= Len(str) /\ str[intEnd] = "."
        fracEnd == IF hasPoint THEN DigitsEnd(str, intEnd + 1) ELSE intEnd + 1
        tenths == IF hasPoint /\ fracEnd > intEnd + 1
                  THEN DigitValue(str[intEnd + 1]) ELSE 0
        hundredths == IF hasPoint /\ fracEnd > intEnd + 2
                      THEN DigitValue(str[intEnd + 2]) ELSE 0
    IN  whole * 100 + tenths * 10 + hundredths

\* cart.reduce((total, item) => total + parseFloat(item.price) * item.quantity, 0)
RECURSIVE ReduceTotal(_, _, _)
ReduceTotal(items, i, total) ==
    IF i > Len(items) THEN total
    ELSE ReduceTotal(items, i + 1, total + parseFloat(items[i].price) * items[i].quantity)

\* cart.reduce((count, item) => count + item.quantity, 0)
RECURSIVE ReduceCount(_, _, _)
ReduceCount(items, i, count) ==
    IF i > Len(items) THEN count
    ELSE ReduceCount(items, i + 1, count + items[i].quantity)

cartTotal == ReduceTotal(cart, 1, 0)

cartItemCount == ReduceCount(cart, 1, 0)

\* --- the cart state and its operations ---

CartCall(op, id, n) == [op |-> op, id |-> id, n |-> n]

QuantityOf(items, id) ==
    IF FindItem(items, id)
    THEN items[CHOOSE i \in 1..Len(items) : items[i].id = id].quantity
    ELSE 0

CartInitially(owner) ==
    /\ cartOwner = owner
    /\ cart = <<>>
    /\ cartOp = CartCall("useState", 0, 0)

addToCart(product, quantity) ==
    /\ cartOwner = "CartProvider"
    /\ QuantityOf(cart, product.id) + quantity <= MaxQuantity
    /\ cart' = AddToCartFn(cart, product, quantity)
    /\ cartOp' = CartCall("addToCart", product.id, quantity)
    /\ UNCHANGED cartOwner
    /\ UNCHANGED <<storageVars, rateVars, pageVars, serviceVars>>

updateCartQuantity(productId, change) ==
    /\ cartOwner = "CartProvider"
    /\ QuantityOf(cart, productId) + change <= MaxQuantity
    /\ cart' = UpdateCartQuantityFn(cart, productId, change)
    /\ cartOp' = CartCall("updateCartQuantity", productId, change)
    /\ UNCHANGED cartOwner
    /\ UNCHANGED <<storageVars, rateVars, pageVars, serviceVars>>

removeFromCart(productId) ==
    /\ cartOwner = "CartProvider"
    /\ cart' = RemoveFromCartFn(cart, productId)
    /\ cartOp' = CartCall("removeFromCart", productId, 0)
    /\ UNCHANGED cartOwner
    /\ UNCHANGED <<storageVars, rateVars, pageVars, serviceVars>>

clearCart ==
    /\ cartOwner = "CartProvider"
    /\ cart' = <<>>
    /\ cartOp' = CartCall("clearCart", 0, 0)
    /\ UNCHANGED cartOwner
    /\ UNCHANGED <<storageVars, rateVars, pageVars, serviceVars>>

FastFoodAddToCart(product, quantity) ==
    /\ cartOwner = "FastFoodPage"
    /\ QuantityOf(cart, product.id) + quantity <= MaxQuantity
    /\ cart' = FastFoodAddToCartFn(cart, product, quantity)
    /\ cartOp' = CartCall("addToCart", product.id, quantity)
    /\ UNCHANGED cartOwner
    /\ UNCHANGED <<storageVars, rateVars, pageVars, serviceVars>>

FastFoodUpdateCartQuantity(productId, change) ==
    /\ cartOwner = "FastFoodPage"
    /\ QuantityOf(cart, productId) + change <= MaxQuantity
    /\ cart' = FastFoodUpdateCartQuantityFn(cart, productId, change)
    /\ cartOp' = CartCall("updateCartQuantity", productId, change)
    /\ UNCHANGED cartOwner
    /\ UNCHANGED <<storageVars, rateVars, pageVars, serviceVars>>

FastFoodRemoveFromCart(productId) ==
    /\ cartOwner = "FastFoodPage"
    /\ cart' = RemoveFromCartFn(cart, productId)
    /\ cartOp' = CartCall("removeFromCart", productId, 0)
    /\ UNCHANGED cartOwner
    /\ UNCHANGED <<storageVars, rateVars, pageVars, serviceVars>>

\* handleOrderComplete: setCart([])
FastFoodHandleOrderComplete ==
    /\ cartOwner = "FastFoodPage"
    /\ cart' = <<>>
    /\ cartOp' = CartCall("clearCart", 0, 0)
    /\ UNCHANGED cartOwner
    /\ UNCHANGED <<storageVars, rateVars, pageVars, serviceVars>>

-----------------------------------------------------------------------------
(* Checkout: CheckoutModal (components/checkout-modal.tsx) as HomePage      *)
(* mounts it. Strings the handlers trim, filter or measure are sequences of *)
(* characters.                                                              *)

IsSpace(c) == c = " "

RECURSIVE TrimStart(_)
TrimStart(str) ==
    IF str # <<>> /\ IsSpace(Head(str)) THEN TrimStart(Tail(str)) ELSE str

RECURSIVE TrimEnd(_)
TrimEnd(str) ==
    IF str # <<>> /\ IsSpace(str[Len(str)])
    THEN TrimEnd(SubSeq(str, 1, Len(str) - 1))
    ELSE str

\* String.prototype.trim
trim(str) == TrimEnd(TrimStart(str))

\* the characters /[^\d+\s()-]/g leaves in place
KeptInPhone(c) == IsDigit(c) \/ IsSpace(c) \/ c \in {"+", "(", ")", "-"}

\* formData.customerPhone.replace(/[^\d+\s()-]/g, '').trim()
CleanPhone(customerPhone) == trim(SelectSeq(customerPhone, KeptInPhone))

\* the decimal digits of a natural number
RECURSIVE ToDigits(_)
ToDigits(n) ==
    IF n < 10 THEN <<Digits[n + 1]>>
    ELSE Append(ToDigits(n \div 10), Digits[(n % 10) + 1])

\* the whole part only
NumberToStringWhole(cents) == ToDigits(cents \div 100)

\* Number.prototype.toString of an amount held in cents: no trailing zeros,
\* no decimal point on a whole number. The catalog prices are multiples of
\* 0.50, which binary floating point adds and multiplies exactly.
NumberToString(cents) ==
    LET whole == ToDigits(cents \div 100)
        frac == cents % 100
    IN  IF frac = 0 THEN whole
        ELSE IF frac % 10 = 0 THEN whole \o <<".", Digits[(frac \div 10) + 1]>>
        ELSE whole \o <<".", Digits[(frac \div 10) + 1], Digits[(frac % 10) + 1]>>

\* JSON.stringify of an array of flat objects, and JSON.parse of the result
JSONstringify(value) == [json |-> value]

JSONparse(text) == text.json

\* HomePage: cart.map(item => ({ id, name, price, quantity, imageUrl }))
cartItems ==
    [i \in 1..Len(cart) |->
        LET item == [id |-> cart[i].id, name |-> cart[i].name,
                     price |-> cart[i].price, quantity |-> cart[i].quantity]
        IN  IF Has(cart[i], "imageUrl")
            THEN Spread(item, [imageUrl |-> cart[i].imageUrl])
            ELSE item]

\* the first line only
OrderLinesFirstOnly(items) ==
    [i \in 1..Min(1, Len(items)) |->
        [id |-> items[i].id, name |-> items[i].name,
         price |-> items[i].price, quantity |-> items[i].quantity]]

\* items.map(item => ({ id, name, price, quantity }))
OrderLines(items) ==
    [i \in 1..Len(items) |->
        [id |-> items[i].id, name |-> items[i].name,
         price |-> items[i].price, quantity |-> items[i].quantity]]

\* the body handleSubmit hands to orderMutation.mutate
OrderData(form, cleanPhone, items, total) ==
    [customerName |-> trim(form.customerName),
     customerPhone |-> cleanPhone,
     deliveryAddress |-> trim(form.deliveryAddress),
     paymentMethod |-> form.paymentMethod,
     totalAmount |-> NumberToString(total),
     items |-> JSONstringify(OrderLines(items))]

EmptyForm ==
    [customerName |-> <<>>, customerPhone |-> <<>>, deliveryAddress |-> <<>>,
     paymentMethod |-> "cod", coordinates |-> Null]

\* What a customer types: a complete form, and the same form with one field
\* left empty, blank, too short, or padded with punctuation
FilledForm ==
    [customerName |-> <<"A", "n", "a", " ">>,
     customerPhone |-> <<"0", "9", "1", "7", "1", "2", "3", "4", "5", "6", "7">>,
     deliveryAddress |-> <<" ", "P", "1">>,
     paymentMethod |-> "gcash", coordinates |-> Null]

FormInputs ==
    { FilledForm,
      [FilledForm EXCEPT !.customerName = <<>>],
      [FilledForm EXCEPT !.customerName = <<" ">>],
      [FilledForm EXCEPT !.deliveryAddress = <<>>],
      [FilledForm EXCEPT !.customerPhone = <<>>],
      [FilledForm EXCEPT !.customerPhone = <<"t", "e", "l", ":", "0", "9", "1", "7", "1", "2", "3">>],
      [FilledForm EXCEPT !.customerPhone = <<"0", "9", "1", "7", "-", "1", "2", "3", "-", "4", "5">>] }

Mutation(status, variables) == [status |-> status, variables |-> variables]

CheckoutInitially ==
    /\ formData = EmptyForm
    /\ isSuccess = FALSE
    /\ isCheckoutOpen = FALSE
    /\ orderMutation = Mutation("idle", NoRecord)

\* ShoppingCart: the checkout button, rendered when items.length > 0
onCheckout ==
    /\ ~isCheckoutOpen
    /\ Len(cartItems) > 0
    /\ isCheckoutOpen' = TRUE
    /\ UNCHANGED <<formData, isSuccess, orderMutation, toast>>
    /\ UNCHANGED <<storageVars, cartVars, rateVars, authVars, serviceVars>>

\* the inputs of the form, rendered while the success view is not
setFormData(form) ==
    /\ isCheckoutOpen
    /\ ~isSuccess
    /\ formData' = form
    /\ UNCHANGED <<isSuccess, isCheckoutOpen, orderMutation, toast>>
    /\ UNCHANGED <<storageVars, cartVars, rateVars, authVars, serviceVars>>

\* the submit button is disabled while orderMutation.isPending
handleSubmit ==
    /\ isCheckoutOpen
    /\ ~isSuccess
    /\ orderMutation.status # "pending"
    /\ LET items == cartItems
           total == cartTotal
           cleanPhone == CleanPhone(formData.customerPhone)
       IN  IF formData.customerName = <<>> \/ formData.customerPhone = <<>>
                \/ formData.deliveryAddress = <<>>
           THEN toast' = "Missing Information" /\ UNCHANGED orderMutation
           ELSE IF Len(items) = 0
           THEN toast' = "Empty Cart" /\ UNCHANGED orderMutation
           ELSE IF Len(cleanPhone) < 10
           THEN toast' = "Invalid Phone Number" /\ UNCHANGED orderMutation
           ELSE /\ orderMutation' =
                       Mutation("pending", OrderData(formData, cleanPhone, items, total))
                /\ UNCHANGED toast
    /\ UNCHANGED <<formData, isSuccess, isCheckoutOpen>>
    /\ UNCHANGED <<storageVars, cartVars, rateVars, authVars, serviceVars>>

\* orderMutation.onSuccess: POST /api/orders answered 2xx
OrderOnSuccess ==
    /\ orderMutation.status = "pending"
    /\ orderMutation' = Mutation("success", orderMutation.variables)
    /\ isSuccess' = TRUE
    /\ toast' = "Order Placed!"
    /\ UNCHANGED <<formData, isCheckoutOpen>>
    /\ UNCHANGED <<storageVars, cartVars, rateVars, authVars, serviceVars>>

\* orderMutation.onError: the request failed
OrderOnError ==
    /\ orderMutation.status = "pending"
    /\ orderMutation' = Mutation("error", orderMutation.variables)
    /\ toast' = "Order Failed"
    /\ UNCHANGED <<formData, isSuccess, isCheckoutOpen>>
    /\ UNCHANGED <<storageVars, cartVars, rateVars, authVars, serviceVars>>

\* Dialog onOpenChange and the Continue Shopping button; onOrderComplete is
\* HomePage's () => { clearCart(); setIsCheckoutOpen(false) }
handleClose ==
    /\ isCheckoutOpen
    /\ IF isSuccess
       THEN /\ cart' = <<>>
            /\ cartOp' = CartCall("clearCart", 0, 0)
            /\ isSuccess' = FALSE
            /\ formData' = EmptyForm
       ELSE UNCHANGED <<cart, cartOp, isSuccess, formData>>
    /\ isCheckoutOpen' = FALSE
    /\ UNCHANGED <<cartOwner, orderMutation, toast>>
    /\ UNCHANGED <<storageVars, rateVars, authVars, serviceVars>>

\* the product grid of HomePage, reachable while no dialog covers it
HomeAddToCart(product, quantity) ==
    /\ ~isCheckoutOpen
    /\ addToCart(product, quantity)

-----------------------------------------------------------------------------
(* Login: AuthPage.handleLogin (pages/auth-page)                            *)

\* the code handleLogin compares with
AdminSecurityCode == "BAKERY123"

LoginInputs ==
    [username : {"", "admin", "ana"}, password : {"", "maxwil2024"},
     securityCode : {"", AdminSecurityCode, "bakery123"}]

\* only the required fields are looked at
LoginRefusalNoCode(form) ==
    IF form.username = "" \/ form.password = "" THEN "Missing Information" ELSE ""

\* the toast handleLogin returns with, "" when it goes on to send the request
LoginRefusal(form) ==
    IF form.username = "" \/ form.password = "" THEN "Missing Information"
    ELSE IF form.username = "admin" /\ form.securityCode = ""
    THEN "Security Code Required"
    ELSE IF form.username = "admin" /\ form.securityCode # AdminSecurityCode
    THEN "Invalid Security Code"
    ELSE ""

LoginInitially ==
    /\ loginForm = [username |-> "", password |-> "", securityCode |-> ""]
    /\ loginMutation = Mutation("idle", NoRecord)
    /\ location = "/auth"

PagesInitially == CheckoutInitially /\ LoginInitially /\ toast = ""

setLoginForm(form) ==
    /\ location = "/auth"
    /\ loginForm' = form
    /\ UNCHANGED <<loginMutation, location, toast>>
    /\ UNCHANGED <<storageVars, cartVars, rateVars, checkoutVars, serviceVars>>

\* the Sign In button is disabled while loginMutation.isPending
handleLogin ==
    /\ location = "/auth"
    /\ loginMutation.status # "pending"
    /\ IF LoginRefusal(loginForm) # ""
       THEN toast' = LoginRefusal(loginForm) /\ UNCHANGED loginMutation
       ELSE /\ loginMutation' =
                   Mutation("pending", [username |-> loginForm.username,
                                        password |-> loginForm.password])
            /\ UNCHANGED toast
    /\ UNCHANGED <<loginForm, location>>
    /\ UNCHANGED <<storageVars, cartVars, rateVars, checkoutVars, serviceVars>>

\* await loginMutation.mutateAsync(...) resolves: setLocation runs with the
\* username the handler was called with
LoginResolved ==
    /\ loginMutation.status = "pending"
    /\ loginMutation' = Mutation("success", loginMutation.variables)
    /\ location' = IF loginMutation.variables.username = "admin" THEN "/admin" ELSE "/"
    /\ UNCHANGED <<loginForm, toast>>
    /\ UNCHANGED <<storageVars, cartVars, rateVars, checkoutVars, serviceVars>>

\* await loginMutation.mutateAsync(...) rejects: the catch block is empty
LoginRejected ==
    /\ loginMutation.status = "pending"
    /\ loginMutation' = Mutation("error", loginMutation.variables)
    /\ UNCHANGED <<loginForm, location, toast>>
    /\ UNCHANGED <<storageVars, cartVars, rateVars, checkoutVars, serviceVars>>

-----------------------------------------------------------------------------
(* The HTTP pipeline of server/index.ts up to the rate limiter *)

windowMs == 15 * 60 * 1000
maxRequests == 100

Ips == {"10.0.0.1", "10.0.0.2"}

\* requests, as method and path segments
Requests ==
    { [method |-> "GET", path |-> <<"api", "config">>],
      [method |-> "GET", path |-> <<"api", "products">>],
      [method |-> "POST", path |-> <<"api", "orders">>],
      [method |-> "GET", path |-> <<"assets", "index.js">>] }

\* app.get('/api/config', ...) matches
MatchesConfigRoute(req) ==
    req.method = "GET" /\ req.path = <<"api", "config">>

\* app.use('/api', ...) matches
UnderApi(req) == Len(req.path) >= 1 /\ req.path[1] = "api"

\* now > userData.resetTime
Elapsed(userData, t) == t > userData.resetTime

\* userData.count > maxRequests
ExceededStrict(userData) == userData.count > maxRequests

\* userData.count >= maxRequests
Exceeded(userData) == userData.count >= maxRequests

\* { count: 0, resetTime: now + windowMs }
FreshWindowUncounted(t) == [count |-> 0, resetTime |-> t + windowMs]

\* { count: 1, resetTime: now + windowMs }
FreshWindow(t) == [count |-> 1, resetTime |-> t + windowMs]

\* userData.count = 1, the window end left as it was
RestartWindowStale(userData, t) == Spread(userData, [count |-> 1])

\* userData.count = 1; userData.resetTime = now + windowMs
RestartWindow(userData, t) ==
    Spread(userData, [count |-> 1, resetTime |-> t + windowMs])

\* userData.count++
Counted(userData) == Spread(userData, [count |-> userData.count + 1])

\* the limiter middleware: the map it leaves and whether it calls next()
RateLimit(map, ip, t) ==
    IF ip \notin DOMAIN map
    THEN [map |-> MapSet(map, ip, FreshWindow(t)), status |-> 200]
    ELSE LET userData == map[ip]
         IN  IF Elapsed(userData, t)
             THEN [map |-> MapSet(map, ip, RestartWindow(userData, t)), status |-> 200]
             ELSE IF Exceeded(userData)
                  THEN [map |-> map, status |-> 429]
                  ELSE [map |-> MapSet(map, ip, Counted(userData)), status |-> 200]

\* the handlers of the pipeline in registration order: the config route, then
\* the limiter, then everything registered later (answered 200 here)
Dispatch(map, req, ip, t) ==
    IF MatchesConfigRoute(req)
    THEN [map |-> map, status |-> 200, limited |-> FALSE]
    ELSE IF UnderApi(req)
         THEN Spread(RateLimit(map, ip, t), [limited |-> TRUE])
         ELSE [map |-> map, status |-> 200, limited |-> FALSE]

\* History: per ip, the requests the limiter has seen in the ip's current
\* fixed window, the time of the request that opened it, and whether it saw
\* more than maxRequests of them in the window before
NoHits == [n |-> 0, opened |-> 0, refused |-> FALSE]

WindowOver(h, t) == h.n > 0 /\ t > h.opened + windowMs

Hit(h, t) ==
    IF h.n = 0 \/ WindowOver(h, t)
    THEN [n |-> 1, opened |-> t, refused |-> h.n > maxRequests]
    ELSE [n |-> h.n + 1, opened |-> h.opened, refused |-> h.refused]

Heavy(h) == h.n > MaxLightHits

InitRate ==
    /\ rateLimitMap = <<>>
    /\ now = 0
    /\ hits = [ip \in Ips |-> NoHits]
    /\ res = [ip |-> "", method |-> "", path |-> <<>>, status |-> 0, limited |-> FALSE]

Request(ip, req) ==
    LET out == Dispatch(rateLimitMap, req, ip, now)
        h == IF out.limited THEN Hit(hits[ip], now) ELSE hits[ip]
    IN  /\ h.n <= maxRequests + MaxHitsOver
        /\ Heavy(h) => \A other \in Ips \ {ip} : ~Heavy(hits[other])
        /\ rateLimitMap' = out.map
        /\ hits' = [hits EXCEPT ![ip] = h]
        /\ res' = [ip |-> ip, method |-> req.method, path |-> req.path,
                   status |-> out.status, limited |-> out.limited]
        /\ UNCHANGED now
        /\ UNCHANGED <<storageVars, cartVars, pageVars, serviceVars>>

\* time passes between requests; the clock readings explored are those at
\* most MaxSkew ms after the server's start or after one whole window
Advance(d) ==
    /\ (now + d) % windowMs <= MaxSkew
    /\ now + d <= windowMs + MaxSkew
    /\ now' = now + d
    /\ UNCHANGED <<rateLimitMap, hits, res>>
    /\ UNCHANGED <<storageVars, cartVars, pageVars, serviceVars>>

-----------------------------------------------------------------------------
(* The API request log of server/index.ts: sanitizeLogData over JSON values. *)
(* A JSON value carries its type, so that an empty array, an empty object   *)
(* and null stay apart.                                                     *)

JNull == [type |-> "null"]
JString(str) == [type |-> "string", value |-> str]
JArray(items) == [type |-> "array", items |-> items]
JObject(props) == [type |-> "object", props |-> props]

\* !data: null and the empty string (the falsy values among those modelled)
Falsy(data) == data = JNull \/ data = JString("")

Redacted == JString("[REDACTED]")

IsSensitiveKey(key) == key = "password" \/ key = "securityCode"

\* the properties of the top-level object only
sanitizeLogDataShallow(data) ==
    IF Falsy(data) THEN data
    ELSE IF data.type = "object"
    THEN JObject([key \in DOMAIN data.props |->
                    IF IsSensitiveKey(key) THEN Redacted ELSE data.props[key]])
    ELSE data

RECURSIVE sanitizeLogData(_)
sanitizeLogData(data) ==
    IF Falsy(data) THEN data
    ELSE IF data.type = "array"
    THEN JArray([i \in DOMAIN data.items |-> sanitizeLogData(data.items[i])])
    ELSE IF data.type = "object"
    THEN JObject([key \in DOMAIN data.props |->
                    IF IsSensitiveKey(key) THEN Redacted
                    ELSE sanitizeLogData(data.props[key])])
    ELSE data

\* Response bodies: scalars, one-level objects over a few keys, and those
\* wrapped MaxJsonDepth times in an object or an array. A secret string is
\* the value of a password or securityCode property and of nothing else.
Secrets == {JString("maxwil2024"), JString("BAKERY123")}

JScalars == {JNull, JString(""), JString("ana")} \cup Secrets

BodyKeys == {"username", "password", "securityCode"}

FlatObjects ==
    { JObject(props) : props \in UNION { [keys -> JScalars] : keys \in SUBSET BodyKeys } }

Wrapped(values) ==
    { JArray(<<v>>) : v \in values }
        \cup { JArray(<<v, JObject([password |-> JString("maxwil2024")])>>) : v \in values }
        \cup { JObject([user |-> v]) : v \in values }
        \cup { JObject([user |-> v, securityCode |-> JString("BAKERY123")]) : v \in values }
        \cup { JObject([password |-> v]) : v \in values }

RECURSIVE JsonValues(_)
JsonValues(depth) ==
    IF depth = 0 THEN (JScalars \ Secrets) \cup {JArray(<<>>), JObject(<<>>)}
                      \cup { o \in FlatObjects :
                               \A key \in DOMAIN o.props :
                                   o.props[key] \in Secrets <=> IsSensitiveKey(key) }
    ELSE JsonValues(depth - 1) \cup Wrapped(JsonValues(depth - 1))

Unset == [type |-> "undefined"]

LogInitially ==
    /\ capturedJsonResponse = Unset
    /\ logLine = Unset

\* --- updateOrderStatus called from two admin sessions at once ---

Callers == {"admin-tab-1", "admin-tab-2"}

Call(pc, id, status, value) == [pc |-> pc, id |-> id, status |-> status, value |-> value]

CallsInitially ==
    /\ calls = [c \in Callers |-> Call("idle", 0, "", NoRecord)]
    /\ written = <<>>
    /\ completed = <<>>

\* MemStorage.updateOrderStatus has no await: Map.get, Map.set and the
\* return run within the caller's turn
MemCallUpdateOrderStatus(c, id, status) ==
    /\ impl = "mem"
    /\ calls[c].pc = "idle"
    /\ id \in DOMAIN orders
    /\ LET updatedOrder == MemUpdatedOrder(orders[id], status)
       IN  /\ orders' = MapSet(orders, id, updatedOrder)
           /\ calls' = [calls EXCEPT ![c] = Call("returned", id, status, updatedOrder)]
           /\ ret' = Result("updateOrderStatus", id, status, TRUE, updatedOrder)
    /\ written' = Append(written, c)
    /\ completed' = Append(completed, c)
    /\ UNCHANGED <<impl, users, products, currentUserId, currentProductId,
                   currentOrderId, clock>>
    /\ UNCHANGED <<cartVars, rateVars, pageVars, logVars, viewVars, offlineVars>>

\* DatabaseStorage.updateOrderStatus up to its await: the UPDATE is sent
DbIssueUpdateOrderStatus(c, id, status) ==
    /\ impl = "db"
    /\ calls[c].pc = "idle"
    /\ id \in DOMAIN orders
    /\ calls' = [calls EXCEPT ![c] = Call("issued", id, status, NoRecord)]
    /\ UNCHANGED <<written, completed>>
    /\ UNCHANGED <<storageVars, cartVars, rateVars, pageVars, logVars, viewVars, offlineVars>>

\* the database executes UPDATE orders SET status WHERE id RETURNING *
DbExecuteUpdateOrderStatus(c) ==
    /\ impl = "db"
    /\ calls[c].pc = "issued"
    /\ LET id == calls[c].id
           order == IF id \in DOMAIN orders
                    THEN DbUpdatedOrder(orders[id], calls[c].status) ELSE NoRecord
       IN  /\ orders' = IF id \in DOMAIN orders THEN MapSet(orders, id, order) ELSE orders
           /\ calls' = [calls EXCEPT ![c] = Call("executed", id, calls[c].status, order)]
    /\ written' = Append(written, c)
    /\ UNCHANGED completed
    /\ UNCHANGED <<impl, users, products, currentUserId, currentProductId,
                   currentOrderId, clock, ret>>
    /\ UNCHANGED <<cartVars, rateVars, pageVars, logVars, viewVars, offlineVars>>

\* the awaited rows arrive and the call returns order || undefined
DbReturnUpdateOrderStatus(c) ==
    /\ impl = "db"
    /\ calls[c].pc = "executed"
    /\ calls' = [calls EXCEPT ![c].pc = "returned"]
    /\ completed' = Append(completed, c)
    /\ ret' = Result("updateOrderStatus", calls[c].id, calls[c].status,
                     calls[c].value # NoRecord, calls[c].value)
    /\ UNCHANGED written
    /\ UNCHANGED <<impl, users, products, orders, currentUserId, currentProductId,
                   currentOrderId, clock>>
    /\ UNCHANGED <<cartVars, rateVars, pageVars, logVars, viewVars, offlineVars>>

\* res.json(bodyJson) of a route under /api, once per request
ResJson(bodyJson) ==
    /\ capturedJsonResponse = Unset
    /\ capturedJsonResponse' = bodyJson
    /\ logLine' = Unset
    /\ UNCHANGED <<storageVars, cartVars, rateVars, pageVars, callVars, viewVars, offlineVars>>

\* res.on("finish"): if (capturedJsonResponse) the sanitized body is appended
\* to the log line; the next request starts with nothing captured
ResFinish ==
    /\ capturedJsonResponse # Unset
    /\ logLine' = IF Falsy(capturedJsonResponse) THEN Unset
                  ELSE sanitizeLogData(capturedJsonResponse)
    /\ capturedJsonResponse' = Unset
    /\ UNCHANGED <<storageVars, cartVars, rateVars, pageVars, callVars, viewVars, offlineVars>>

-----------------------------------------------------------------------------
(* The admin views: the status buttons of TotalOrdersPage, of the orders    *)
(* list of AdminDashboard and of SimpleDeliveryMap (the dashboard's map     *)
(* tab), each as the set of statuses it offers for an order.                *)

\* total-orders-page.tsx, the buttons under each order of the "all" tab
TotalOrdersButtons(status) ==
    IF status \notin {"pending", "accepted", "preparing", "ready"} THEN {}
    ELSE IF status = "pending" THEN {"accepted", "cancelled"}
    ELSE IF status = "accepted" THEN {"preparing"}
    ELSE IF status = "preparing" THEN {"ready"}
    ELSE {"delivered"}

\* total-orders-page.tsx: Order categories
IsActive(order) == order.status \in {"pending", "accepted", "preparing", "ready"}
IsCompleted(order) == order.status = "delivered"
IsCancelled(order) == order.status = "cancelled"

\* admin-dashboard.tsx: the orders list shows pending and preparing orders
DashboardListed(order) == order.status = "pending" \/ order.status = "preparing"

\* admin-dashboard.tsx, the buttons under a listed order
DashboardButtons(status) ==
    (IF status = "pending" THEN {"accepted", "cancelled"} ELSE {})
    \cup (IF status = "accepted" THEN {"preparing"} ELSE {})
    \cup (IF status = "preparing" THEN {"delivered"} ELSE {})

\* admin-dashboard.tsx hands the map every order that is not cancelled;
\* SimpleDeliveryMap lists those of them it calls pendingOrders
MapListed(order) ==
    /\ order.status # "cancelled"
    /\ \/ order.status = "pending" \/ order.status = "confirmed"
       \/ order.status = "preparing" \/ order.status = "out-for-delivery"

\* SimpleDeliveryMap, "Update Status" of the selected order
MapButtons(status) ==
    IF status = "delivered" THEN {}
    ELSE (IF status = "pending" THEN {"confirmed"} ELSE {})
         \cup (IF status = "confirmed" THEN {"preparing"} ELSE {})
         \cup (IF status = "preparing" THEN {"out-for-delivery"} ELSE {})
         \cup (IF status = "out-for-delivery" THEN {"delivered"} ELSE {})

\* every status a button of some view carries
ButtonStatuses ==
    {"accepted", "cancelled", "preparing", "ready", "delivered",
     "confirmed", "out-for-delivery"}

ViewsInitially == selectedOrder = NoRecord

\* PUT /api/orders/:id/status as an admin: storage.updateOrderStatus
PutOrderStatus(id, status) ==
    MemUpdateOrderStatus(id, status) \/ DbUpdateOrderStatus(id, status)

\* handleUpdateOrderStatus of TotalOrdersPage, from a button of order id
TotalOrdersClick(id, status) ==
    /\ id \in DOMAIN orders
    /\ status \in TotalOrdersButtons(orders[id].status)
    /\ PutOrderStatus(id, status)

\* handleUpdateOrderStatus of AdminDashboard, from a button of order id
DashboardClick(id, status) ==
    /\ id \in DOMAIN orders
    /\ DashboardListed(orders[id])
    /\ status \in DashboardButtons(orders[id].status)
    /\ PutOrderStatus(id, status)

\* SimpleDeliveryMap: onClick={() => setSelectedOrder(order)}
MapSelect(id) ==
    /\ id \in DOMAIN orders
    /\ MapListed(orders[id])
    /\ selectedOrder' = orders[id]
    /\ UNCHANGED <<storageVars, cartVars, rateVars, pageVars, logVars, callVars, offlineVars>>

\* SimpleDeliveryMap: onStatusUpdate(selectedOrder.id, status), which is
\* handleUpdateOrderStatus of AdminDashboard; selectedOrder stays as it was
\* when it was selected
MapClick(status) ==
    /\ selectedOrder # NoRecord
    /\ status \in MapButtons(selectedOrder.status)
    /\ PutOrderStatus(selectedOrder.id, status)

-----------------------------------------------------------------------------
(* OfflineService: orders queued on the device under 'offline_orders' and   *)
(* sent to POST /api/orders by syncOfflineOrders. Every await is a point    *)
(* where another call can run.                                              *)

OfflineOrderIds == 1..MaxOfflineOrders
SyncCalls == 1..MaxSyncCalls

\* the n-th order a customer places while offline
OfflineOrder(n) ==
    Spread(OrderBase, [customerName |-> "Ana", paymentMethod |-> "cod", placed |-> n])

\* { ...order, timestamp: new Date().toISOString(), offline: true }
QueuedOrder(order) == Spread(order, [timestamp |-> "iso", offline |-> TRUE])

\* { ...order, offline: false }
SyncBody(order) == Spread(order, [offline |-> FALSE])

\* offlineStorage.get(key) || []
OfflineStorageGet(text) == IF text = NoRecord THEN <<>> ELSE JSONparse(text)

Storing(pc, existingOrders) == [pc |-> pc, existingOrders |-> existingOrders]
Syncing(pc, offlineOrders, next) == [pc |-> pc, offlineOrders |-> offlineOrders, next |-> next]

OfflineInitially ==
    /\ offlineOrdersKey = NoRecord
    /\ storing = [n \in OfflineOrderIds |-> Storing("idle", <<>>)]
    /\ syncing = [c \in SyncCalls |-> Syncing("idle", <<>>, 1)]
    /\ posted = [n \in OfflineOrderIds |-> 0]
    /\ accepted = {}

\* storeOfflineOrder(order), up to its second await: the queue is read and
\* the order pushed onto the copy
StoreOfflineOrderGet(n) ==
    /\ storing[n].pc = "idle"
    /\ storing' = [storing EXCEPT ![n] =
           Storing("set", Append(OfflineStorageGet(offlineOrdersKey),
                                 QueuedOrder(OfflineOrder(n))))]
    /\ UNCHANGED <<offlineOrdersKey, syncing, posted, accepted>>
    /\ UNCHANGED <<storageVars, cartVars, rateVars, pageVars, logVars, callVars, viewVars>>

\* storeOfflineOrder(order): offlineStorage.set(ORDERS_KEY, existingOrders)
StoreOfflineOrderSet(n) ==
    /\ storing[n].pc = "set"
    /\ offlineOrdersKey' = JSONstringify(storing[n].existingOrders)
    /\ storing' = [storing EXCEPT ![n].pc = "stored"]
    /\ UNCHANGED <<syncing, posted, accepted>>
    /\ UNCHANGED <<storageVars, cartVars, rateVars, pageVars, logVars, callVars, viewVars>>

\* syncOfflineOrders: const offlineOrders = await this.getOfflineOrders()
SyncGetOfflineOrders(c) ==
    /\ syncing[c].pc \in {"idle", "done"}
    /\ syncing' = [syncing EXCEPT ![c] =
           Syncing("loop", OfflineStorageGet(offlineOrdersKey), 1)]
    /\ UNCHANGED <<offlineOrdersKey, storing, posted, accepted>>
    /\ UNCHANGED <<storageVars, cartVars, rateVars, pageVars, logVars, callVars, viewVars>>

\* the offline order a request body was made of
OrderIdOf(body) == body.placed

\* syncOfflineOrders, one turn of the loop: fetch('/api/orders', POST) of the
\* next order; ok is response.ok, FALSE also when fetch throws. Either way
\* the loop goes on
SyncFetch(c, ok) ==
    /\ syncing[c].pc = "loop"
    /\ syncing[c].next <= Len(syncing[c].offlineOrders)
    /\ LET body == SyncBody(syncing[c].offlineOrders[syncing[c].next])
           n == OrderIdOf(body)
       IN  /\ posted' = [posted EXCEPT ![n] = @ + 1]
           /\ accepted' = IF ok THEN accepted \cup {n} ELSE accepted
    /\ syncing' = [syncing EXCEPT ![c].next = @ + 1]
    /\ UNCHANGED <<offlineOrdersKey, storing>>
    /\ UNCHANGED <<storageVars, cartVars, rateVars, pageVars, logVars, callVars, viewVars>>

\* syncOfflineOrders after the loop: await this.clearOfflineOrders()
SyncClearOfflineOrders(c) ==
    /\ syncing[c].pc = "loop"
    /\ syncing[c].next > Len(syncing[c].offlineOrders)
    /\ offlineOrdersKey' = NoRecord
    /\ syncing' = [syncing EXCEPT ![c].pc = "done"]
    /\ UNCHANGED <<storing, posted, accepted>>
    /\ UNCHANGED <<storageVars, cartVars, rateVars, pageVars, logVars, callVars, viewVars>>

ServicesInitially == LogInitially /\ CallsInitially /\ ViewsInitially /\ OfflineInitially

-----------------------------------------------------------------------------
(* Specifications *)

ProductIds == 1..MaxProductId

AddQuantities == 1..MaxAddQuantity

Changes == {-2, -1, 1}

Steps == {1, windowMs}

NextProducts ==
    \/ \E p \in InsertProducts : MemCreateProduct(p)
    \/ \E p \in InsertProducts : DbCreateProduct(p)
    \/ \E id \in ProductIds, p \in InsertProducts : MemUpdateProduct(id, p)
    \/ \E id \in ProductIds, p \in InsertProducts : DbUpdateProduct(id, p)
    \/ \E id \in ProductIds : MemDeleteProduct(id)
    \/ \E id \in ProductIds : DbDeleteProduct(id)

NextCreateOrder ==
    \/ \E o \in InsertOrders : MemCreateOrder(o)
    \/ \E o \in InsertOrders : DbCreateOrder(o)

NextCart ==
    \/ \E p \in CartProducts, q \in AddQuantities : addToCart(p, q)
    \/ \E id \in CartProductIds, c \in Changes : updateCartQuantity(id, c)
    \/ \E id \in CartProductIds : removeFromCart(id)
    \/ clearCart
    \/ \E p \in CartProducts, q \in AddQuantities : FastFoodAddToCart(p, q)
    \/ \E id \in CartProductIds, c \in Changes : FastFoodUpdateCartQuantity(id, c)
    \/ \E id \in CartProductIds : FastFoodRemoveFromCart(id)
    \/ FastFoodHandleOrderComplete

NextRate ==
    \/ \E ip \in Ips, req \in Requests : Request(ip, req)
    \/ \E d \in Steps : Advance(d)

\* the product operations of both storage implementations
InitProducts ==
    \E i \in {"mem", "db"} :
        StorageInitially(i) /\ CartInitially("CartProvider") /\ InitRate /\ PagesInitially /\ ServicesInitially

SpecProducts == InitProducts /\ [][NextProducts]_vars

\* createOrder alone, in both storage implementations
SpecCreateOrder == InitProducts /\ [][NextCreateOrder]_vars

\* the cart operations of CartProvider and of FastFoodPage
InitCartOnly ==
    \E owner \in {"CartProvider", "FastFoodPage"} :
        StorageInitially("mem") /\ CartInitially(owner) /\ InitRate /\ PagesInitially /\ ServicesInitially

SpecCart == InitCartOnly /\ [][NextCart]_vars

\* requests arriving at the server over time
InitRateOnly ==
    \E i \in {"mem"} :
        StorageInitially(i) /\ CartInitially("CartProvider") /\ InitRate /\ PagesInitially /\ ServicesInitially

SpecRate == InitRateOnly /\ [][NextRate]_vars

\* createOrder and updateOrderStatus, in both storage implementations
OrderIds == 1..(MaxOrderId + 1)

CheckoutOrders == { o \in InsertOrders : o.paymentMethod = "cod" /\ ~Has(o, "status") }

NextOrders ==
    \/ \E o \in CheckoutOrders : MemCreateOrder(o)
    \/ \E o \in CheckoutOrders : DbCreateOrder(o)
    \/ \E id \in OrderIds, s \in Statuses : MemUpdateOrderStatus(id, s)
    \/ \E id \in OrderIds, s \in Statuses : DbUpdateOrderStatus(id, s)

SpecOrders == InitProducts /\ [][NextOrders]_vars

\* every operation of the storage contract; each id argument is either the
\* first id of its table or one past the last id the table can hold
ProbedUserIds == {1, MaxUserId + 1}

ProbedProductIds == {MaxProductId, MaxProductId + 1}

ProbedOrderIds == {1, MaxOrderId + 1}

HiddenProduct == Spread(ProductBase, [imageUrl |-> "", available |-> FALSE])

CodOrder == Spread(OrderBase, [customerName |-> "Ana", paymentMethod |-> "cod"])

NextStorage ==
    \/ \E u \in InsertUsers : MemCreateUser(u)
    \/ \E u \in InsertUsers : DbCreateUser(u)
    \/ \E id \in ProbedUserIds : DbUpdateUserPassword(id, "hash-2")
    \/ MemCreateProduct(HiddenProduct)
    \/ DbCreateProduct(HiddenProduct)
    \/ \E id \in ProbedProductIds : MemUpdateProduct(id, HiddenProduct)
    \/ \E id \in ProbedProductIds : DbUpdateProduct(id, HiddenProduct)
    \/ \E id \in ProbedProductIds : MemDeleteProduct(id)
    \/ \E id \in ProbedProductIds : DbDeleteProduct(id)
    \/ MemCreateOrder(CodOrder)
    \/ DbCreateOrder(CodOrder)
    \/ \E id \in ProbedOrderIds : MemUpdateOrderStatus(id, "delivered")
    \/ \E id \in ProbedOrderIds : DbUpdateOrderStatus(id, "delivered")
    \/ \E id \in ProbedUserIds : GetUser(id)
    \/ \E username \in Usernames : GetUserByUsername(username)
    \/ \E id \in ProbedProductIds : GetProduct(id)
    \/ \E id \in ProbedOrderIds : GetOrder(id)

SpecStorage == InitProducts /\ [][NextStorage]_vars

\* server starts between product creations, updates and deletions
BootProductIds == 1..MaxBootProductId

NextBootstrap ==
    \/ DbInitializeDatabase
    \/ MemConstructor
    \/ MemCreateProduct(HiddenProduct)
    \/ DbCreateProduct(HiddenProduct)
    \/ \E id \in ProductIds : MemUpdateProduct(id, HiddenProduct)
    \/ \E id \in ProductIds : DbUpdateProduct(id, HiddenProduct)
    \/ \E id \in BootProductIds : MemDeleteProduct(id)
    \/ \E id \in BootProductIds : DbDeleteProduct(id)

SpecBootstrap == InitProducts /\ [][NextBootstrap]_vars

\* a customer of HomePage filling the cart, checking out and closing the dialog
NextCheckout ==
    \/ \E p \in CartProducts : HomeAddToCart(p, MaxAddQuantity)
    \/ onCheckout
    \/ \E form \in FormInputs : setFormData(form)
    \/ handleSubmit
    \/ OrderOnSuccess
    \/ OrderOnError
    \/ handleClose

SpecCheckout == InitRateOnly /\ [][NextCheckout]_vars

\* every request is answered, and an open dialog is closed
SpecCheckoutFair ==
    /\ SpecCheckout
    /\ WF_vars(OrderOnSuccess \/ OrderOnError)
    /\ WF_vars(handleClose)

\* a visitor of AuthPage signing in
NextLogin ==
    \/ \E form \in LoginInputs : setLoginForm(form)
    \/ handleLogin
    \/ LoginResolved
    \/ LoginRejected

SpecLogin == InitRateOnly /\ [][NextLogin]_vars

\* responses of API routes passing the logging middleware
NextLog ==
    \/ \E bodyJson \in JsonValues(MaxJsonDepth) : ResJson(bodyJson)
    \/ ResFinish

SpecLog == InitRateOnly /\ [][NextLog]_vars

\* two admin sessions setting the status of stored orders at the same time
NextConcurrent ==
    \/ MemCreateOrder(CodOrder)
    \/ DbCreateOrder(CodOrder)
    \/ \E c \in Callers, id \in OrderIds, s \in Statuses : MemCallUpdateOrderStatus(c, id, s)
    \/ \E c \in Callers, id \in OrderIds, s \in Statuses : DbIssueUpdateOrderStatus(c, id, s)
    \/ \E c \in Callers : DbExecuteUpdateOrderStatus(c)
    \/ \E c \in Callers : DbReturnUpdateOrderStatus(c)

SpecConcurrent == InitProducts /\ [][NextConcurrent]_vars

\* an admin working through the orders in the three views
NextAdmin ==
    \/ MemCreateOrder(CodOrder)
    \/ DbCreateOrder(CodOrder)
    \/ \E id \in OrderIds, s \in ButtonStatuses : TotalOrdersClick(id, s)
    \/ \E id \in OrderIds, s \in ButtonStatuses : DashboardClick(id, s)
    \/ \E id \in OrderIds : MapSelect(id)
    \/ \E s \in ButtonStatuses : MapClick(s)

SpecAdmin == InitProducts /\ [][NextAdmin]_vars

\* a device that queues orders while offline and syncs them
NextOffline ==
    \/ \E n \in OfflineOrderIds : StoreOfflineOrderGet(n)
    \/ \E n \in OfflineOrderIds : StoreOfflineOrderSet(n)
    \/ \E c \in SyncCalls : SyncGetOfflineOrders(c)
    \/ \E c \in SyncCalls, ok \in BOOLEAN : SyncFetch(c, ok)
    \/ \E c \in SyncCalls : SyncClearOfflineOrders(c)

SpecOffline == InitRateOnly /\ [][NextOffline]_vars

\* MemStorage handing out ids while products are deleted
NextIds ==
    \/ \E u \in InsertUsers : MemCreateUser(u)
    \/ MemCreateProduct(HiddenProduct)
    \/ MemCreateOrder(CodOrder)
    \/ \E id \in ProductIds : MemDeleteProduct(id)

SpecIds == InitRateOnly /\ [][NextIds]_vars

\* everything together
Init ==
    \E i \in {"mem", "db"}, owner \in {"CartProvider", "FastFoodPage"} :
        StorageInitially(i) /\ CartInitially(owner) /\ InitRate /\ PagesInitially /\ ServicesInitially

Next ==
    \/ NextProducts \/ NextCreateOrder \/ NextCart \/ NextRate
    \/ NextOrders \/ NextStorage \/ NextBootstrap \/ NextCheckout \/ NextLogin \/ NextLog \/ NextConcurrent \/ NextAdmin \/ NextOffline \/ NextIds

Spec == Init /\ [][Next]_vars

-----------------------------------------------------------------------------
(* Properties *)

\* C1: every order createOrder stores and returns has status "pending",
\* whatever status the input carries, in both storage implementations; no
\* sequence of createOrder calls yields an order with another status.
C1_CreateOrderForcesPending ==
    /\ \A id \in DOMAIN orders : orders[id].status = "pending"
    /\ ret.op = "createOrder" =>
          /\ ret.value.status = "pending"
          /\ getOrder(ret.id) = ret.value

C1_Witness ==
    /\ ret.op = "createOrder"
    /\ Has(ret.input, "status")
    /\ ret.input.status = "delivered"
    /\ Cardinality(DOMAIN orders) >= 2

\* C2: after any createProduct / updateProduct / deleteProduct calls,
\* getAllProducts returns exactly the stored products whose available field
\* is true, and never one whose available field is false.
C2_GetAllProductsOnlyAvailable ==
    /\ \A p \in getAllProducts :
          /\ \E id \in DOMAIN products : products[id] = p
          /\ Has(p, "available")
          /\ p.available # FALSE
    /\ \A id \in DOMAIN products :
          (Has(products[id], "available") /\ products[id].available = TRUE)
              => products[id] \in getAllProducts

C2_Witness ==
    /\ \E id \in DOMAIN products :
          Has(products[id], "available") /\ products[id].available = FALSE
    /\ \E id \in ProductIds : id < currentProductId /\ id \notin DOMAIN products
    /\ getAllProducts # {}
    /\ Cardinality(getAllProducts) < Cardinality(DOMAIN products)

\* C3: deleteProduct(id) returns false and changes nothing when no product
\* has that id; when one exists it returns true, getProduct(id) is not-found
\* afterwards and every other product is unchanged.
C3_DeleteProduct ==
    [][\A id \in ProductIds :
          (ret'.op = "deleteProduct" /\ ret'.id = id) =>
              IF id \notin DOMAIN products
              THEN /\ ret'.ok = FALSE
                   /\ UNCHANGED <<users, products, orders, currentUserId,
                                  currentProductId, currentOrderId>>
              ELSE /\ ret'.ok = TRUE
                   /\ getProduct(id)' = NoRecord
                   /\ DOMAIN products' = DOMAIN products \ {id}
                   /\ \A other \in DOMAIN products \ {id} :
                          products'[other] = products[other]
                   /\ UNCHANGED <<users, orders>>]_vars

C3_Witness ==
    /\ ret.op = "deleteProduct"
    /\ ~ret.ok
    /\ ret.id < currentProductId
    /\ getProduct(ret.id) = NoRecord
    /\ products # <<>>

\* C4: in both storage implementations a product created with available
\* omitted is stored with available = true, and one created with imageUrl
\* omitted is stored with imageUrl = null.
C4_CreateProductDefaults ==
    ret.op = "createProduct" =>
        LET stored == getProduct(ret.id)
        IN  /\ ~Has(ret.input, "available") =>
                  Has(stored, "available") /\ stored.available = TRUE
            /\ ~Has(ret.input, "imageUrl") =>
                  Has(stored, "imageUrl") /\ stored.imageUrl = Null

\* C5: addToCart(product, q) on a cart that holds a line for the product id
\* adds q to that line's quantity and creates no line; otherwise it appends
\* one line of quantity q (so 2 then 3 of one product is one line of 5).
C5_AddToCartMerges ==
    [][cartOp'.op = "addToCart" =>
          LET id == cartOp'.id
              q == cartOp'.n
          IN  IF \E i \in 1..Len(cart) : cart[i].id = id
              THEN /\ Len(cart') = Len(cart)
                   /\ \A i \in 1..Len(cart) :
                          IF cart[i].id = id
                          THEN cart'[i] = [cart[i] EXCEPT !.quantity = @ + q]
                          ELSE cart'[i] = cart[i]
              ELSE /\ Len(cart') = Len(cart) + 1
                   /\ SubSeq(cart', 1, Len(cart)) = cart
                   /\ cart'[Len(cart')].id = id
                   /\ cart'[Len(cart')].quantity = q]_vars

C5_Witness ==
    /\ cartOp = CartCall("addToCart", cartOp.id, 3)
    /\ Len(cart) = 1
    /\ cart[1].id = cartOp.id
    /\ cart[1].quantity = 5

\* C6: updateCartQuantity(productId, change) removes the line when its
\* quantity plus change is zero or below; otherwise the line's quantity
\* becomes quantity + change; other lines are unchanged.
C6_UpdateCartQuantityRemoves ==
    [][cartOp'.op = "updateCartQuantity" =>
          LET id == cartOp'.id
              change == cartOp'.n
              Other(item) == item.id # id
          IN  /\ SelectSeq(cart', Other) = SelectSeq(cart, Other)
              /\ FindItem(cart, id) =>
                    IF QuantityOf(cart, id) + change <= 0
                    THEN ~FindItem(cart', id)
                    ELSE QuantityOf(cart', id) = QuantityOf(cart, id) + change]_vars

\* C7: in every cart state cartTotal is the sum over the lines of price x
\* quantity (in cents) and cartItemCount the sum of the quantities; both are
\* 0 for the empty cart.
PriceCents(id) ==
    CASE id = 1 -> 500
      [] id = 2 -> 4500
      [] id = 3 -> 8500
      [] id = 4 -> 3500
      [] id = 5 -> 2550

\* the sum over the set lines of indices of what each line costs
RECURSIVE CostOfLines(_, _)
CostOfLines(items, lines) ==
    IF lines = {} THEN 0
    ELSE LET i == CHOOSE k \in lines : TRUE
         IN  PriceCents(items[i].id) * items[i].quantity
                 + CostOfLines(items, lines \ {i})

\* the sum over the set lines of indices of the quantities
RECURSIVE PiecesOfLines(_, _)
PiecesOfLines(items, lines) ==
    IF lines = {} THEN 0
    ELSE LET i == CHOOSE k \in lines : TRUE
         IN  items[i].quantity + PiecesOfLines(items, lines \ {i})

C7_CartTotals ==
    /\ cartTotal = CostOfLines(cart, DOMAIN cart)
    /\ cartItemCount = PiecesOfLines(cart, DOMAIN cart)
    /\ cart = <<>> => cartTotal = 0 /\ cartItemCount = 0

C7_Witness ==
    /\ Len(cart) >= 2
    /\ \E i \in 1..Len(cart) : cart[i].quantity >= 2 /\ cart[i].id = 5
    /\ cartOp.op = "updateCartQuantity"
    /\ cartTotal > 0

\* C8: within one window the limiter admits the first 100 requests of an ip
\* and answers the 101st and every later one with 429; each ip is counted
\* on its own, so another ip is admitted in the same window.
C8_CapPerIp ==
    /\ res.limited => (res.status = 429 <=> hits[res.ip].n > maxRequests)
    /\ res.limited => res.status \in {200, 429}
    /\ \A ip \in Ips :
          IF hits[ip].n = 0
          THEN ip \notin DOMAIN rateLimitMap
          ELSE /\ ip \in DOMAIN rateLimitMap
               /\ rateLimitMap[ip].count = Min(hits[ip].n, maxRequests)

C8_Witness ==
    \E ip \in Ips :
        /\ hits[ip].n > maxRequests
        /\ ~WindowOver(hits[ip], now)
        /\ res.ip # ip
        /\ res.limited
        /\ res.status = 200
        /\ hits[res.ip].opened = hits[ip].opened

\* C9: once an ip's window has elapsed its next request is admitted, its
\* counter restarts at 1 and a new window starts at that request, also when
\* the ip was being answered 429.
C9_WindowRestarts ==
    [][\A ip \in Ips :
          (/\ now' = now
           /\ res'.ip = ip
           /\ res'.limited
           /\ WindowOver(hits[ip], now))
          => /\ res'.status = 200
             /\ rateLimitMap'[ip].count = 1
             /\ rateLimitMap'[ip].resetTime = now + windowMs]_vars

C9_Witness ==
    /\ res.limited
    /\ res.status = 200
    /\ hits[res.ip].refused
    /\ hits[res.ip].n = 1
    /\ hits[res.ip].opened = now

\* C10: every request to a path under /api, GET /api/config included, passes
\* through the limiter: it counts toward the caller's window and is answered
\* 429 once the caller's cap is exceeded.
C10_AllApiRoutesLimited ==
    (res.status # 0 /\ UnderApi(res)) =>
        /\ res.limited
        /\ (hits[res.ip].n > maxRequests /\ ~WindowOver(hits[res.ip], now))
               => res.status = 429

\* C11: updateOrderStatus(id, status) on a stored order writes the given
\* status whatever the current status and the new value are, returns the
\* updated order, and leaves every other field of that order and every other
\* order unchanged.
C11_UpdateOrderStatusWritesAny ==
    [][ \A id \in OrderIds :
          (ret'.op = "updateOrderStatus" /\ ret'.id = id /\ id \in DOMAIN orders) =>
              /\ DOMAIN orders' = DOMAIN orders
              /\ orders'[id].status = ret'.input
              /\ ret'.ok
              /\ ret'.value = orders'[id]
              /\ DOMAIN orders'[id] = DOMAIN orders[id]
              /\ \A f \in DOMAIN orders[id] \ {"status"} : orders'[id][f] = orders[id][f]
              /\ \A k \in DOMAIN orders \ {id} : orders'[k] = orders[k] ]_vars

C11_Witness ==
    /\ ret.op = "updateOrderStatus"
    /\ ret.ok
    /\ ret.input = "pending"
    /\ Cardinality(DOMAIN orders) >= 2
    /\ \E k \in DOMAIN orders : orders[k].status = "on-the-moon"
    /\ \E k \in DOMAIN orders : orders[k].status = "delivered"

\* The stored value of a mutable product field the input carries
ReplacedAsGiven(stored, input) ==
    /\ \A f \in {"name", "description", "price", "category"} : stored[f] = input[f]
    /\ Has(input, "available") => (Has(stored, "available") /\ stored.available = input.available)

KeepsIdentity(stored, previous, id) ==
    /\ stored.id = id
    /\ previous.id = id
    /\ stored.createdAt = previous.createdAt

\* C12 as stated: updateProduct(id, input) on a stored product replaces name,
\* description, price, category, imageUrl and available by the input's
\* values, keeps id and createdAt, and returns the updated record.
C12_UpdateProductReplacesAll ==
    [][ \A id \in ProductIds :
          (ret'.op = "updateProduct" /\ ret'.id = id /\ id \in DOMAIN products) =>
              /\ ret'.ok
              /\ ret'.value = products'[id]
              /\ ReplacedAsGiven(products'[id], ret'.input)
              /\ Has(ret'.input, "imageUrl") =>
                     (Has(products'[id], "imageUrl")
                         /\ products'[id].imageUrl = ret'.input.imageUrl)
              /\ KeepsIdentity(products'[id], products[id], id) ]_vars

\* C12, amended: updateProduct(id, input) on a stored product replaces name,
\* description, price, category and available by the input's values, and
\* imageUrl by the input's value except that DatabaseStorage stores an empty
\* imageUrl as null; id and createdAt keep their previous values and the
\* updated record is returned.
C12_UpdateProductReplaces ==
    [][ \A id \in ProductIds :
          (ret'.op = "updateProduct" /\ ret'.id = id /\ id \in DOMAIN products) =>
              /\ ret'.ok
              /\ ret'.value = products'[id]
              /\ ReplacedAsGiven(products'[id], ret'.input)
              /\ Has(ret'.input, "imageUrl") =>
                     (Has(products'[id], "imageUrl")
                         /\ products'[id].imageUrl =
                               IF impl = "db" /\ ret'.input.imageUrl = ""
                               THEN Null ELSE ret'.input.imageUrl)
              /\ KeepsIdentity(products'[id], products[id], id) ]_vars

\* an update of a starter product by an input with an empty imageUrl
C12_Witness ==
    /\ ret.op = "updateProduct"
    /\ ret.ok
    /\ ret.id \in DOMAIN initialProducts
    /\ Has(ret.input, "imageUrl")
    /\ ret.input.imageUrl = ""
    /\ products[ret.id].available = FALSE
    /\ products[ret.id].createdAt = 0

\* what the storage holds: the three tables and their id counters
StorageKept ==
    UNCHANGED <<users, products, orders, currentUserId, currentProductId,
                currentOrderId>>

NotFound(r) == r.value = NoRecord /\ ~r.ok

\* C13: getUser, getUserByUsername, getProduct, getOrder, updateProduct and
\* updateOrderStatus called with an id or username that is not stored return
\* undefined, raise nothing, and leave users, products, orders and the id
\* counters unchanged.
C13_MissReturnsUndefined ==
    [][ /\ (ret'.op = "getUser" /\ ret'.id \notin DOMAIN users)
              => (NotFound(ret') /\ StorageKept)
        /\ (ret'.op = "getUserByUsername" /\ UsersNamed(ret'.input) = {})
              => (NotFound(ret') /\ StorageKept)
        /\ (ret'.op = "getProduct" /\ ret'.id \notin DOMAIN products)
              => (NotFound(ret') /\ StorageKept)
        /\ (ret'.op = "getOrder" /\ ret'.id \notin DOMAIN orders)
              => (NotFound(ret') /\ StorageKept)
        /\ (ret'.op = "updateProduct" /\ ret'.id \notin DOMAIN products)
              => (NotFound(ret') /\ StorageKept)
        /\ (ret'.op = "updateOrderStatus" /\ ret'.id \notin DOMAIN orders)
              => (NotFound(ret') /\ StorageKept) ]_vars

\* a miss on a store that holds more than its seed
C13_Witness ==
    /\ ret.op \in {"getUser", "updateOrderStatus"}
    /\ ret.id \notin (IF ret.op = "getUser" THEN DOMAIN users ELSE DOMAIN orders)
    /\ ret.value = NoRecord
    /\ orders # <<>>
    /\ MaxProductId \in DOMAIN products

\* C19: after any sequence of createUser calls, the seeded administrator
\* included, no two stored users have the same username, in MemStorage and
\* in DatabaseStorage.
C19_UsernamesUnique ==
    \A i \in DOMAIN users : \A j \in DOMAIN users :
        users[i].username = users[j].username => i = j

\* C20: no storage operation removes an order or a user: every stored order
\* and user is still returned by getOrder / getUser after the next
\* operation, the record createOrder / createUser returns is stored, and the
\* set of stored order ids only grows.
C20_OrdersAndUsersStay ==
    [][ /\ \A id \in DOMAIN orders : id \in DOMAIN orders' /\ getOrder(id)' # NoRecord
        /\ \A id \in DOMAIN users : id \in DOMAIN users' /\ getUser(id)' # NoRecord
        /\ (ret'.op \in {"createOrder", "createUser"} /\ ret'.ok) =>
              ret'.value = (IF ret'.op = "createOrder" THEN orders' ELSE users')[ret'.id]
      ]_vars

\* a product has been deleted while orders and a created user are stored
C20_Witness ==
    /\ ret.op = "deleteProduct"
    /\ ret.ok
    /\ Cardinality(DOMAIN orders) >= 2
    /\ Cardinality(DOMAIN users) >= 2
    /\ \E id \in DOMAIN orders : orders[id].status = "delivered"

\* C18: the storage bootstrap creates the administrator only when no user
\* named "admin" exists and the starter products only when no products
\* exist: run on a seeded store that still holds at least one product, it
\* adds no user and no product.
C18_BootstrapIdempotent ==
    [][ (ret'.op = "initializeDatabase"
            /\ UsersNamed("admin") # {}
            /\ DOMAIN products # {})
          => (users' = users /\ products' = products) ]_vars

\* handleSubmit has handed a body to orderMutation.mutate in this step
OrderRequestIssued ==
    orderMutation' # orderMutation /\ orderMutation'.status = "pending"

\* C14: after an order-creation request of the checkout succeeds the cart
\* eventually becomes empty; when the request fails the cart is left exactly
\* as it was.
C14_SuccessClearsCart ==
    /\ isSuccess ~> (cart = <<>>)
    /\ [][ (orderMutation.status = "pending" /\ orderMutation'.status = "error")
              => cart' = cart ]_vars

DigitsOf(str) == SelectSeq(str, IsDigit)

\* C15: the checkout issues an order-creation request only when customer
\* name, phone and delivery address are all non-empty, the cart has at least
\* one line, and the sanitized phone has at least 10 digits; a submission it
\* refuses sends nothing and leaves the cart unchanged.
C15_RequestOnlyWhenValid ==
    [][ /\ OrderRequestIssued =>
              /\ formData.customerName # <<>>
              /\ formData.customerPhone # <<>>
              /\ formData.deliveryAddress # <<>>
              /\ Len(cart) >= 1
              /\ Len(DigitsOf(orderMutation'.variables.customerPhone)) >= 10
        /\ (toast' # toast /\ toast' \in {"Missing Information", "Empty Cart",
                                           "Invalid Phone Number"})
              => (orderMutation' = orderMutation /\ cart' = cart) ]_vars

C17_AdminLoginNeedsCode ==
    [][ /\ (loginMutation' # loginMutation /\ loginMutation'.status = "pending"
               /\ loginMutation'.variables.username = "admin")
              => loginForm.securityCode = AdminSecurityCode
        /\ (toast' # toast /\ toast' \in {"Security Code Required",
                                           "Invalid Security Code"})
              => /\ loginForm.username = "admin"
                 /\ loginForm.securityCode # AdminSecurityCode
                 /\ loginMutation' = loginMutation
                 /\ location' = location
        /\ (loginMutation' # loginMutation /\ loginMutation'.status = "pending"
               /\ loginForm.username # "admin")
              => loginMutation'.variables.username = loginForm.username
        /\ (location' = "/admin" /\ location # "/admin")
              => (loginMutation.status = "pending"
                    /\ loginMutation.variables.username = "admin") ]_vars

\* the administrator's password with a wrong code: refused, nothing sent
C17_Witness ==
    /\ toast = "Invalid Security Code"
    /\ loginForm.username = "admin"
    /\ loginForm.password = "maxwil2024"
    /\ loginForm.securityCode # AdminSecurityCode
    /\ loginMutation.status = "idle"
    /\ location = "/auth"

\* what sanitizeLogData is to return for data: the same value with every
\* property named password or securityCode replaced, at any depth
RECURSIVE IsSanitized(_, _)
IsSanitized(data, out) ==
    /\ out.type = data.type
    /\ data.type = "string" => out.value = data.value
    /\ data.type = "array" =>
          /\ DOMAIN out.items = DOMAIN data.items
          /\ \A i \in DOMAIN data.items : IsSanitized(data.items[i], out.items[i])
    /\ data.type = "object" =>
          /\ DOMAIN out.props = DOMAIN data.props
          /\ \A key \in DOMAIN data.props :
                IF IsSensitiveKey(key)
                THEN out.props[key] = Redacted
                ELSE IsSanitized(data.props[key], out.props[key])

\* the strings a JSON value holds
RECURSIVE StringsOf(_)
StringsOf(data) ==
    IF data.type = "string" THEN {data}
    ELSE IF data.type = "array"
    THEN UNION { StringsOf(data.items[i]) : i \in DOMAIN data.items }
    ELSE IF data.type = "object"
    THEN UNION { StringsOf(data.props[key]) : key \in DOMAIN data.props }
    ELSE {}

\* C21: sanitizeLogData applied to a logged JSON value, objects and arrays
\* nested to any depth, returns the value with every property named password
\* or securityCode holding "[REDACTED]" and everything else unchanged; the
\* log line holds no original password or securityCode value.
C21_LogIsSanitized ==
    [][ (capturedJsonResponse # Unset /\ logLine' # Unset) =>
          /\ IsSanitized(capturedJsonResponse, logLine')
          /\ StringsOf(logLine') \cap Secrets = {} ]_vars

\* a logged body whose secret sat inside a nested object or array
C21_Witness ==
    /\ logLine # Unset
    /\ logLine.type = "object"
    /\ Has(logLine.props, "user")
    /\ logLine.props.user.type = "object"
    /\ Has(logLine.props.user.props, "password")
    /\ logLine.props.user.props.password = Redacted
    /\ Has(logLine.props.user.props, "username")

\* both sessions have called updateOrderStatus on the same order and both
\* calls have returned
BothReturned(id) ==
    \A c \in Callers : calls[c].pc = "returned" /\ calls[c].id = id

Last(seq) == seq[Len(seq)]

\* the order id as createOrder stored it, but for its status
IntactButStatus(id) ==
    [orders[id] EXCEPT !.status = "pending"] =
        (IF impl = "mem" THEN MemNewOrder(CodOrder, id, id) ELSE DbNewOrder(CodOrder, id, id))

\* C22 as stated: when two updateOrderStatus calls on the same order
\* interleave, the stored status at the end is the one written by the call
\* that completes last, no write is rejected, and all other fields of the
\* order are intact.
C22_LastCompletedWins ==
    \A id \in DOMAIN orders :
        BothReturned(id) =>
            /\ orders[id].status = calls[Last(completed)].status
            /\ \A c \in Callers : calls[c].value # NoRecord
            /\ IntactButStatus(id)

\* C22, amended: when two updateOrderStatus calls on the same order
\* interleave, the stored status at the end is the one of the call whose
\* write was applied last (with DatabaseStorage this need not be the call
\* that returns last), no write is rejected, and all other fields of the
\* order are intact.
C22_LastWriteWins ==
    \A id \in DOMAIN orders :
        BothReturned(id) =>
            /\ orders[id].status = calls[Last(written)].status
            /\ \A c \in Callers :
                  /\ calls[c].value # NoRecord
                  /\ calls[c].value.status = calls[c].status
            /\ IntactButStatus(id)

\* both calls returned, with different statuses, in the other order than
\* their writes were applied
C22_Witness ==
    \E id \in DOMAIN orders :
        /\ BothReturned(id)
        /\ \E c \in Callers, d \in Callers : calls[c].status # calls[d].status
        /\ Last(completed) # Last(written)

\* the status changes of the spec's progression: pending -> accepted ->
\* preparing -> (ready ->) delivered, cancelled from pending or accepted
Progression ==
    { <<"pending", "accepted">>, <<"accepted", "preparing">>,
      <<"preparing", "ready">>, <<"preparing", "delivered">>,
      <<"ready", "delivered">>,
      <<"pending", "cancelled">>, <<"accepted", "cancelled">> }

KnownStatuses == {"pending", "accepted", "preparing", "ready", "delivered", "cancelled"}

\* C23: every status change the admin views offer as a button follows
\* pending -> accepted -> preparing -> (ready ->) delivered, with cancelled
\* offered only from pending or accepted, and no view writes a status
\* outside {pending, accepted, preparing, ready, delivered, cancelled}.
C23_ButtonsFollowProgression ==
    [][\A id \in DOMAIN orders :
          orders'[id].status # orders[id].status =>
              /\ <<orders[id].status, orders'[id].status>> \in Progression
              /\ orders'[id].status \in KnownStatuses]_vars

\* C29: on the total-orders page every order is counted in exactly one of
\* Active, Completed and Cancelled, for every status an admin view can
\* write, so Total = Active + Completed + Cancelled, and each non-terminal
\* order shows a button that advances it.
C29_EveryOrderCountedOnce ==
    /\ \A id \in DOMAIN orders :
          /\ Cardinality({ c \in {"active", "completed", "cancelled"} :
                \/ c = "active" /\ IsActive(orders[id])
                \/ c = "completed" /\ IsCompleted(orders[id])
                \/ c = "cancelled" /\ IsCancelled(orders[id]) }) = 1
          /\ orders[id].status \notin {"delivered", "cancelled"} =>
                TotalOrdersButtons(orders[id].status) # {}
    /\ Cardinality(DOMAIN orders) =
           Cardinality({ id \in DOMAIN orders : IsActive(orders[id]) })
           + Cardinality({ id \in DOMAIN orders : IsCompleted(orders[id]) })
           + Cardinality({ id \in DOMAIN orders : IsCancelled(orders[id]) })

\* the offline orders in the queue on the device
Queued ==
    LET offlineOrders == OfflineStorageGet(offlineOrdersKey)
    IN  { OrderIdOf(offlineOrders[i]) : i \in 1..Len(offlineOrders) }

\* C24: syncOfflineOrders submits each queued offline order to POST
\* /api/orders at most once and never retries it, including when two
\* syncOfflineOrders calls overlap in time.
C24_PostedAtMostOnce ==
    \A n \in OfflineOrderIds : posted[n] <= 1

\* C25: after syncOfflineOrders completes, every order stored with
\* storeOfflineOrder has either been accepted by the server or is still in
\* the offline queue: an order whose POST failed, or that was stored while
\* the sync was running, is not lost.
C25_StoredOrdersNotLost ==
    (\E c \in SyncCalls : syncing[c].pc = "done") =>
        \A n \in OfflineOrderIds :
            storing[n].pc = "stored" => n \in accepted \/ n \in Queued

\* C27: in every reachable state of the rate limiter each tracked ip has a
\* count between 1 and 100; a request answered 429 neither increments the
\* count nor moves the window end; and no request changes another ip's
\* entry or removes an entry.
C27_LimiterEntries ==
    [][/\ \A ip \in DOMAIN rateLimitMap' :
             /\ rateLimitMap'[ip].count >= 1
             /\ rateLimitMap'[ip].count <= maxRequests
       /\ DOMAIN rateLimitMap \subseteq DOMAIN rateLimitMap'
       /\ \A ip \in DOMAIN rateLimitMap :
             /\ (hits'[ip] # hits[ip] /\ res'.status = 429) =>
                   /\ rateLimitMap'[ip].count = rateLimitMap[ip].count
                   /\ rateLimitMap'[ip].resetTime = rateLimitMap[ip].resetTime
             /\ res'.ip # ip => rateLimitMap'[ip] = rateLimitMap[ip]]_vars

\* an ip at its cap was just answered 429 while the other ip is tracked too
C27_Witness ==
    /\ res.limited
    /\ res.status = 429
    /\ rateLimitMap[res.ip].count = maxRequests
    /\ DOMAIN rateLimitMap = Ips

\* C28: after any sequence of addToCart (quantity >= 1), updateCartQuantity,
\* removeFromCart and clearCart, the cart of CartProvider holds at most one
\* line per product id and every line has quantity >= 1; removeFromCart(id)
\* deletes exactly that line; clearCart leaves the cart empty.
C28_CartLines ==
    [][cartOwner = "CartProvider" =>
          /\ \A i \in 1..Len(cart'), j \in 1..Len(cart') :
                cart'[i].id = cart'[j].id => i = j
          /\ \A i \in 1..Len(cart') : cart'[i].quantity >= 1
          /\ cartOp'.op = "removeFromCart" =>
                /\ ~FindItem(cart', cartOp'.id)
                /\ Len(cart') = Len(cart) - (IF FindItem(cart, cartOp'.id) THEN 1 ELSE 0)
                /\ \A i \in 1..Len(cart) :
                      cart[i].id # cartOp'.id =>
                          \E j \in 1..Len(cart') : cart'[j] = cart[i]
          /\ cartOp'.op = "clearCart" => cart' = <<>>]_vars

\* removeFromCart has taken a line out of a cart that holds another line
C28_Witness ==
    /\ cartOwner = "CartProvider"
    /\ cartOp.op = "removeFromCart"
    /\ ~FindItem(cart, cartOp.id)
    /\ Len(cart) >= 1
    /\ \E i \in 1..Len(cart) : cart[i].quantity >= 2

\* C26: in the in-memory store the ids handed out by createUser,
\* createProduct and createOrder are pairwise distinct within each entity
\* and strictly increasing in creation order, and an id is never reused
\* after deleteProduct. Every id handed out so far lies below the entity's
\* counter, the counter never goes back, and a creation takes an id at or
\* above the counter and leaves the counter above that id.
C26_IdsNeverReused ==
    [][/\ \A id \in DOMAIN users' : id < currentUserId' /\ users'[id].id = id
       /\ \A id \in DOMAIN products' : id < currentProductId' /\ products'[id].id = id
       /\ \A id \in DOMAIN orders' : id < currentOrderId' /\ orders'[id].id = id
       /\ currentUserId' >= currentUserId
       /\ currentProductId' >= currentProductId
       /\ currentOrderId' >= currentOrderId
       /\ ret'.op = "createUser" =>
             /\ ret'.id >= currentUserId /\ ret'.id < currentUserId'
             /\ ret'.value.id = ret'.id /\ ret'.id \notin DOMAIN users
       /\ ret'.op = "createProduct" =>
             /\ ret'.id >= currentProductId /\ ret'.id < currentProductId'
             /\ ret'.value.id = ret'.id /\ ret'.id \notin DOMAIN products
       /\ ret'.op = "createOrder" =>
             /\ ret'.id >= currentOrderId /\ ret'.id < currentOrderId'
             /\ ret'.value.id = ret'.id /\ ret'.id \notin DOMAIN orders]_vars

\* the product created last was deleted and createProduct has then handed
\* out a greater id; two orders were created one after the other
C26_Witness ==
    /\ ret.op = "createProduct"
    /\ ret.id - 1 \notin DOMAIN products
    /\ ret.id \in DOMAIN products
    /\ DOMAIN orders = {1, 2}

====
